---------------------------- MODULE Spec2Model ----------------------------
(***************************************************************************)
(* templet: a Mustache-like template engine.                               *)
(*                                                                         *)
(*   parse.rs           nom parser: source text -> Vec<Part>               *)
(*   template.rs        Template::parse, Template::parts                   *)
(*   templates.rs       Templates: the name -> Template registry and the   *)
(*                      render / render_to_string entry points             *)
(*   reflect_render.rs  Renderer: the tree walk over bevy_reflect values   *)
(*                                                                         *)
(* Text is a sequence of one-character strings, so that the parser and     *)
(* the escaping work character by character as the code does.              *)
(***************************************************************************)
EXTENDS Integers, Sequences, FiniteSets, TLC

VARIABLES
    files,      \* the template files of the directory: a sequence of [name, src]
    loaded,     \* how many of them load_dir has parsed and inserted
    templates,  \* the HashMap<String, Template>: template name -> parts
    phase,      \* "loading" while the map is filled, "ready" after Templates::new
    call,       \* the last render_to_string call, [name, data], or NoCall
    out,        \* the text that call wrote to its buffer
    result,     \* the call's outcome: "none" before any call, "Ok", or the error
    vm,         \* the program and root of an execute_to call and the machine after it
    threads,    \* the renders running at once on the registry, one per thread
    scopes      \* the scope stack of each Text and Variable part that render.rs rendered

vars == <<files, loaded, templates, phase, call, out, result, vm, threads, scopes>>

(***************************************************************************)
(* Characters.  nom_unicode's alpha1 / alphanumeric1 / upper1 accept every *)
(* Unicode letter; the model keeps the ASCII ones.                         *)
(***************************************************************************)
Lower == {"a", "b", "c", "d", "e", "f", "g", "h", "i", "j", "k", "l", "m",
          "n", "o", "p", "q", "r", "s", "t", "u", "v", "w", "x", "y", "z"}
Upper == {"A", "B", "C", "D", "E", "F", "G", "H", "I", "J", "K", "L", "M",
          "N", "O", "P", "Q", "R", "S", "T", "U", "V", "W", "X", "Y", "Z"}
Digits == <<"0", "1", "2", "3", "4", "5", "6", "7", "8", "9">>
Digit == {Digits[d] : d \in 1..10}
Alpha == Lower \cup Upper
Alnum == Alpha \cup Digit
Space == {" ", "\t"}

(***************************************************************************)
(* nom's IResult.  Every error of parse.rs is an Err::Error (nothing is    *)
(* cut), so one failure value is enough.  pos is the 1-based index of the  *)
(* first character not yet consumed.  A parser takes the source s and the  *)
(* index i it starts at; a step of a sequence takes the result r of the    *)
(* step before it and fails when r failed, as `?` does.                    *)
(***************************************************************************)
Ok(p, v) == [ok |-> TRUE, pos |-> p, val |-> v]
Fail == [ok |-> FALSE, pos |-> 0, val |-> <<>>]

\* alt((a, b)): a, or b when a fails.
Alt(a, b) == IF a.ok THEN a ELSE b

\* The parser P after r.
Then(P(_, _), s, r) == IF r.ok THEN P(s, r.pos) ELSE Fail

\* r with its value made into F(value).
MapVal(F(_), r) == IF r.ok THEN Ok(r.pos, F(r.val)) ELSE Fail

\* recognize: the text from i up to e, where e = 0 stands for a failure.
Span(s, i, e) == IF e = 0 THEN Fail ELSE Ok(e, SubSeq(s, i, e - 1))

HasTag(s, i, t) == i + Len(t) - 1 <= Len(s) /\ SubSeq(s, i, i + Len(t) - 1) = t

tag(t, s, i) == IF HasTag(s, i, t) THEN Ok(i + Len(t), t) ELSE Fail

\* tag(t) after r, keeping r's value.
then_tag(t, s, r) ==
    IF r.ok /\ HasTag(s, r.pos, t) THEN Ok(r.pos + Len(t), r.val) ELSE Fail

\* The index after the longest run, from i, of characters in set.
RECURSIVE RunEnd(_, _, _)
RunEnd(s, i, set) ==
    IF i <= Len(s) /\ s[i] \in set THEN RunEnd(s, i + 1, set) ELSE i

\* The index after the longest run, from i, of characters not in set.
RECURSIVE RunEndNot(_, _, _)
RunEndNot(s, i, set) ==
    IF i <= Len(s) /\ s[i] \notin set THEN RunEndNot(s, i + 1, set) ELSE i

\* The first index >= i where t occurs in s, or 0.
RECURSIVE Find(_, _, _)
Find(s, i, t) ==
    IF i + Len(t) - 1 > Len(s) THEN 0
    ELSE IF HasTag(s, i, t) THEN i
    ELSE Find(s, i + 1, t)

\* space0 after r, keeping r's value.
then_space0(s, r) == IF r.ok THEN Ok(RunEnd(s, r.pos, Space), r.val) ELSE Fail

take_until(t, s, i) == Span(s, i, Find(s, i, t))

take_until1(t, s, i) == Span(s, i, IF Find(s, i, t) = i THEN 0 ELSE Find(s, i, t))

rest(s, i) == Ok(Len(s) + 1, SubSeq(s, i, Len(s)))

\* is_not(chars): one or more characters, none of them in chars.
is_not(chars, s, i) ==
    Span(s, i, IF RunEndNot(s, i, chars) = i THEN 0 ELSE RunEndNot(s, i, chars))

DigitValue(c) == (CHOOSE d \in 1..10 : Digits[d] = c) - 1

\* value.checked_mul(10).and_then(|v| v.checked_add(d)) on a u128 held as
\* eight 16-bit limbs, the lowest first: the limbs of 10 * value + carry,
\* and after them the carry out of the highest limb.
RECURSIVE mul10_add(_, _)
mul10_add(limbs, carry) ==
    IF limbs = <<>> THEN <<carry>>
    ELSE <<(10 * limbs[1] + carry) % 65536>>
         \o mul10_add(Tail(limbs), (10 * limbs[1] + carry) \div 65536)

\* The u128 a run of digits denotes, from digit j on with the value so far;
\* a carry out of the u128 is the None of the checked operations.
RECURSIVE u128_digits(_, _, _)
u128_checked(ds, j, r) ==
    IF r[9] # 0 THEN [ok |-> FALSE, limbs |-> <<>>]
    ELSE u128_digits(ds, j + 1, SubSeq(r, 1, 8))

u128_digits(ds, j, value) ==
    IF j > Len(ds) THEN [ok |-> TRUE, limbs |-> value]
    ELSE u128_checked(ds, j, mul10_add(value, DigitValue(ds[j])))

u128_value(r, v) == IF v.ok THEN Ok(r.pos, v.limbs) ELSE Fail

u128_of(r) ==
    IF r.ok THEN u128_value(r, u128_digits(r.val, 1, <<0, 0, 0, 0, 0, 0, 0, 0>>)) ELSE Fail

\* nom::character::complete::u128
u128(s, i) ==
    u128_of(Span(s, i, IF RunEnd(s, i, Digit) = i THEN 0 ELSE RunEnd(s, i, Digit)))

\* `number as usize`: the low 64 bits of the u128.  They are the integer
\* when it is below 2^31, and the four limbs themselves above that.
as_usize(limbs) ==
    IF limbs[3] = 0 /\ limbs[4] = 0 /\ limbs[2] < 32768
    THEN limbs[1] + 65536 * limbs[2]
    ELSE SubSeq(limbs, 1, 4)

(***************************************************************************)
(* parse.rs: Part, Access, Field                                           *)
(***************************************************************************)
Text(t) == [part |-> "Text", text |-> t]
Variable(a) == [part |-> "Variable", access |-> a]
Section(a, ps) == [part |-> "Section", access |-> a, parts |-> ps]
InvertedSection(a, ps) == [part |-> "InvertedSection", access |-> a, parts |-> ps]
Include(n) == [part |-> "Include", name |-> n]
Comment == [part |-> "Comment"]

Variant(n) == [access |-> "Variant", name |-> n]
Path(fs) == [access |-> "Path", fields |-> fs]
This == [access |-> "This"]

Index(n) == [field |-> "Index", n |-> n]
Nth(n) == [field |-> "Nth", n |-> n]
Named(n) == [field |-> "Named", name |-> n]
Dot == [field |-> "Dot"]

(***************************************************************************)
(* parse.rs: the access path of a tag                                      *)
(***************************************************************************)
field_dot(s, i) == IF HasTag(s, i, <<".">>) THEN Ok(i + 1, Dot) ELSE Fail

IndexOf(number) == Index(as_usize(number))

NthOf(number) == Nth(as_usize(number))

field_index(s, i) ==
    MapVal(IndexOf, then_tag(<<"]">>, s, Then(u128, s, tag(<<"[">>, s, i))))

field_nth(s, i) == MapVal(NthOf, u128(s, i))

\* alt((alpha1, tag("_"))) and then any run of alphanumeric1 and "_"
field_identifier(s, i) ==
    MapVal(Named, Span(s, i, IF i <= Len(s) /\ s[i] \in Alpha \cup {"_"}
                             THEN RunEnd(s, i + 1, Alnum \cup {"_"})
                             ELSE 0))

path_part(s, i) ==
    Alt(field_dot(s, i), Alt(field_index(s, i), Alt(field_nth(s, i), field_identifier(s, i))))

\* fold_many1's loop: path parts are taken until one fails; a Dot adds no
\* field.
RECURSIVE path_fold(_, _, _)
\* A fold that pushes a field for the Dot as well.
path_step_keeping_dot(s, i, acc, r) ==
    IF ~r.ok THEN Ok(i, acc)
    ELSE path_fold(s, r.pos, Append(acc, r.val))

path_step(s, i, acc, r) ==
    IF ~r.ok THEN Ok(i, acc)
    ELSE path_fold(s, r.pos, IF r.val = Dot THEN acc ELSE Append(acc, r.val))

path_fold(s, i, acc) == path_step(s, i, acc, path_part(s, i))

access_this(s, i) == IF HasTag(s, i, <<".">>) THEN Ok(i + 1, This) ELSE Fail

\* recognize(pair(upper1, alphanumeric1))
access_variant(s, i) ==
    MapVal(Variant,
           Span(s, i, IF RunEnd(s, i, Upper) = i
                         \/ RunEnd(s, RunEnd(s, i, Upper), Alnum) = RunEnd(s, i, Upper)
                      THEN 0
                      ELSE RunEnd(s, RunEnd(s, i, Upper), Alnum)))

access_path(s, i) ==
    IF path_part(s, i).ok THEN MapVal(Path, path_fold(s, i, <<>>)) ELSE Fail

access(s, i) == Alt(access_this(s, i), Alt(access_variant(s, i), access_path(s, i)))

\* After the open sequence r: delimited(space0, access, space0), tag("}}").
tag_body(s, r) ==
    then_tag(<<"}", "}">>, s, then_space0(s, Then(access, s, then_space0(s, r))))

start_tag(open, s, i) == tag_body(s, tag(open, s, i))

tag_end(s, i) == start_tag(<<"{", "{", "/">>, s, i)

(***************************************************************************)
(* parse.rs: the parts                                                     *)
(***************************************************************************)
comment_body(s, i) == is_not({"}"}, s, i)

AsComment(v) == Comment

parse_comment(s, i) ==
    MapVal(AsComment,
           then_tag(<<"}", "}">>, s, Then(comment_body, s, tag(<<"\\", "{", "{">>, s, i))))

parse_variable(s, i) == MapVal(Variable, start_tag(<<"{", "{">>, s, i))

\* escaped(is_not("\"\\"), '\\', tag("\"")): the index after the escaped
\* run that starts at start, or 0 when it is an error.
RECURSIVE escaped_end(_, _, _)
escaped_end(s, i, start) ==
    IF i > Len(s) THEN i
    ELSE IF s[i] \notin {"\"", "\\"} THEN escaped_end(s, RunEndNot(s, i, {"\"", "\\"}), start)
    ELSE IF s[i] = "\\"
         THEN IF i + 1 > Len(s) THEN 0
              ELSE IF s[i + 1] = "\"" THEN escaped_end(s, i + 2, start)
              ELSE 0
    ELSE IF i = start THEN 0 ELSE i

escaped(s, i) == Span(s, i, escaped_end(s, i, i))

file_path(s, i) == then_tag(<<"\"">>, s, Then(escaped, s, tag(<<"\"">>, s, i)))

parse_include(s, i) ==
    MapVal(Include,
           then_tag(<<"}", "}">>, s,
                    then_space0(s, Then(file_path, s,
                                        then_space0(s, tag(<<"{", "{", ">">>, s, i))))))

\* parse_text without its last alternative, rest: a source that has no tag
\* left is then no text.
parse_text_until_tag(s, i) ==
    MapVal(Text, Alt(take_until1(<<"\\", "{", "{">>, s, i), take_until(<<"{", "{">>, s, i)))

\* parse_text with rest alone: the text runs to the end of the source,
\* through any tag.
parse_text_to_end(s, i) ==
    IF rest(s, i).val = <<>> THEN Fail ELSE Ok(rest(s, i).pos, Text(rest(s, i).val))

text_part(r) == IF r.val = <<>> THEN Fail ELSE Ok(r.pos, Text(r.val))

parse_text(s, i) ==
    text_part(Alt(take_until1(<<"\\", "{", "{">>, s, i),
                  Alt(take_until(<<"{", "{">>, s, i), rest(s, i))))

RECURSIVE parse_many0(_, _, _)

\* The end of a section: the close tag must name the path of the open tag.
section_end(open, start, contents, end) ==
    IF ~end.ok THEN Fail
    ELSE IF start.val # end.val THEN Fail
    ELSE Ok(end.pos, IF open = <<"{", "{", "#">>
                     THEN Section(start.val, contents.val)
                     ELSE InvertedSection(start.val, contents.val))

section_contents(open, s, start, contents) ==
    IF ~contents.ok THEN Fail
    ELSE section_end(open, start, contents, tag_end(s, contents.pos))

\* parse_section and parse_inverted_section differ in the open tag and in
\* the Part they build.
section_start(open, s, start) ==
    IF ~start.ok THEN Fail
    ELSE section_contents(open, s, start, parse_many0(s, start.pos, <<>>))

parse_section(s, i) ==
    section_start(<<"{", "{", "#">>, s, start_tag(<<"{", "{", "#">>, s, i))

parse_inverted_section(s, i) ==
    section_start(<<"{", "{", "^">>, s, start_tag(<<"{", "{", "^">>, s, i))

\* alt((parse_comment, parse_section, parse_inverted_section, parse_include,
\*      parse_variable, parse_text))
parse_alt(s, i) ==
    Alt(parse_comment(s, i),
        Alt(parse_section(s, i),
            Alt(parse_inverted_section(s, i),
                Alt(parse_include(s, i),
                    Alt(parse_variable(s, i), parse_text(s, i))))))

\* many0: parts are taken until the alternative fails; a part that consumes
\* nothing is many0's own error.
many0_step(s, i, acc, r) ==
    IF ~r.ok THEN Ok(i, acc)
    ELSE IF r.pos = i THEN Fail
    ELSE parse_many0(s, r.pos, Append(acc, r.val))

parse_many0(s, i, acc) == many0_step(s, i, acc, parse_alt(s, i))

parse_parts(s, i) == parse_many0(s, i, <<>>)

\* parse: the tokens of parse_parts, whatever input is left over; unwrap
\* panics on an Err.
parse_panics(s) == ~parse_parts(s, 1).ok

parse(s) == parse_parts(s, 1).val

(***************************************************************************)
(* The values the renderer walks: what bevy_reflect's reflect_ref() and    *)
(* downcast_ref() tell about a &dyn Reflect.  ty is the type (its name     *)
(* for an aggregate).  Absent is the None of an Option<&dyn Reflect>.      *)
(***************************************************************************)
Bool(b) == [k |-> "Value", ty |-> "bool", b |-> b]
String(s) == [k |-> "Value", ty |-> "String", s |-> s]
I32(n) == [k |-> "Value", ty |-> "i32", n |-> n]
Field(n, v) == [name |-> n, value |-> v]
Struct(ty, fs) == [k |-> "Struct", ty |-> ty, fields |-> fs]
TupleStruct(ty, vs) == [k |-> "TupleStruct", ty |-> ty, items |-> vs]
Tuple(vs) == [k |-> "Tuple", ty |-> <<"(", ")">>, items |-> vs]
List(vs) == [k |-> "List", ty |-> <<"V", "e", "c">>, items |-> vs]
Array(vs) == [k |-> "Array", ty |-> <<"[", "]">>, items |-> vs]
Map(es) == [k |-> "Map", ty |-> <<"H", "a", "s", "h", "M", "a", "p">>, entries |-> es]
Enum(ty, variant, vt, fs) ==
    [k |-> "Enum", ty |-> ty, option |-> FALSE, variant |-> variant, vt |-> vt, fields |-> fs]
OptionTy == <<"O", "p", "t", "i", "o", "n">>
SomeName == <<"S", "o", "m", "e">>
NoneName == <<"N", "o", "n", "e">>
Some(v) ==
    [k |-> "Enum", ty |-> OptionTy, option |-> TRUE, variant |-> SomeName, vt |-> "Tuple",
     fields |-> <<Field(<<>>, v)>>]
None ==
    [k |-> "Enum", ty |-> OptionTy, option |-> TRUE, variant |-> NoneName, vt |-> "Unit",
     fields |-> <<>>]
UnescapedTy == <<"U", "n", "e", "s", "c", "a", "p", "e", "d">>
Unescaped(s) == TupleStruct(UnescapedTy, <<String(s)>>)
Absent == [k |-> "Absent"]

\* The element at a zero-based index, as get() / field() / field_at() give it.
At(vs, n) == IF n + 1 <= Len(vs) THEN vs[n + 1] ELSE Absent

\* Struct::field(name) and Enum::field(name)
FieldNamed(fs, name) ==
    IF \E j \in 1..Len(fs) : fs[j].name = name
    THEN fs[CHOOSE j \in 1..Len(fs) : fs[j].name = name].value
    ELSE Absent

FieldValues(fs) == [j \in 1..Len(fs) |-> fs[j].value]

(***************************************************************************)
(* reflect_render.rs: path resolution                                      *)
(***************************************************************************)
is_option(v) == v.k = "Enum" /\ v.option

option_value(enm) ==
    IF enm.variant = SomeName THEN At(FieldValues(enm.fields), 0) ELSE Absent

RECURSIVE get_field(_, _)
get_field(reflect, field) ==
    IF is_option(reflect)
    THEN LET value == option_value(reflect)
         IN  IF value = Absent THEN Absent ELSE get_field(value, field)
    ELSE IF field.field = "Index" /\ reflect.k \in {"List", "Array"}
    THEN At(reflect.items, field.n)
    ELSE IF field.field = "Nth" /\ reflect.k \in {"TupleStruct", "Tuple"}
    THEN At(reflect.items, field.n)
    ELSE IF field.field = "Nth" /\ reflect.k = "Enum" /\ reflect.vt = "Tuple"
    THEN At(FieldValues(reflect.fields), field.n)
    ELSE IF field.field = "Named" /\ reflect.k = "Struct"
    THEN FieldNamed(reflect.fields, field.name)
    ELSE IF field.field = "Named" /\ reflect.k = "Enum" /\ reflect.vt = "Struct"
    THEN FieldNamed(reflect.fields, field.name)
    ELSE Absent

\* A walk that skips a selector the value cannot satisfy.
RECURSIVE get_fields_skipping(_, _)
get_fields_skipping(reflect, fields) ==
    IF fields = <<>> THEN reflect
    ELSE IF get_field(reflect, Head(fields)) = Absent
    THEN get_fields_skipping(reflect, Tail(fields))
    ELSE get_fields_skipping(get_field(reflect, Head(fields)), Tail(fields))

RECURSIVE get_fields(_, _)
get_fields(reflect, fields) ==
    IF fields = <<>> THEN reflect
    ELSE LET value == get_field(reflect, Head(fields))
         IN  IF value = Absent THEN Absent ELSE get_fields(value, Tail(fields))

get_path(reflect, acc) ==
    IF acc.access = "Variant"
    THEN IF is_option(reflect) THEN option_value(reflect)
         ELSE IF reflect.k = "Enum" /\ reflect.variant = acc.name THEN reflect
         ELSE Absent
    ELSE IF acc.access = "Path" THEN get_fields(reflect, acc.fields)
    ELSE IF is_option(reflect) THEN option_value(reflect)
    ELSE reflect

(***************************************************************************)
(* reflect_render.rs: Renderer::render_value                               *)
(***************************************************************************)
\* An escape that leaves "/" as it is.
escape_char_keeping_slash(c) ==
    IF c = "<" THEN <<"&", "l", "t", ";">>
    ELSE IF c = ">" THEN <<"&", "g", "t", ";">>
    ELSE IF c = "&" THEN <<"&", "a", "m", "p", ";">>
    ELSE IF c = "\"" THEN <<"&", "q", "u", "o", "t", ";">>
    ELSE IF c = "'" THEN <<"&", "#", "x", "2", "7", ";">>
    ELSE <<c>>

\* v_htmlescape::escape, character by character.
escape_char(c) ==
    IF c = "<" THEN <<"&", "l", "t", ";">>
    ELSE IF c = ">" THEN <<"&", "g", "t", ";">>
    ELSE IF c = "&" THEN <<"&", "a", "m", "p", ";">>
    ELSE IF c = "\"" THEN <<"&", "q", "u", "o", "t", ";">>
    ELSE IF c = "'" THEN <<"&", "#", "x", "2", "7", ";">>
    ELSE IF c = "/" THEN <<"&", "#", "x", "2", "f", ";">>
    ELSE <<c>>

RECURSIVE escape(_)
escape(s) == IF s = <<>> THEN <<>> ELSE escape_char(Head(s)) \o escape(Tail(s))

\* The decimal form `{}` gives an integer.
RECURSIVE Decimal(_)
Decimal(n) ==
    IF n < 0 THEN <<"-">> \o Decimal(-n)
    ELSE IF n < 10 THEN <<Digits[n + 1]>>
    ELSE Decimal(n \div 10) \o <<Digits[(n % 10) + 1]>>

LowerSeq == <<"a", "b", "c", "d", "e", "f", "g", "h", "i", "j", "k", "l", "m",
              "n", "o", "p", "q", "r", "s", "t", "u", "v", "w", "x", "y", "z">>
UpperSeq == <<"A", "B", "C", "D", "E", "F", "G", "H", "I", "J", "K", "L", "M",
              "N", "O", "P", "Q", "R", "S", "T", "U", "V", "W", "X", "Y", "Z">>
ToLower(c) == IF c \in Upper THEN LowerSeq[CHOOSE j \in 1..26 : UpperSeq[j] = c] ELSE c

\* to_case(Case::Kebab) on a variant name made of letters: a word starts at
\* an uppercase letter that follows a lowercase one, or that follows an
\* uppercase one and is followed by a lowercase one.
RECURSIVE Kebab(_, _)
Kebab(name, j) ==
    IF j > Len(name) THEN <<>>
    ELSE LET boundary ==
                 /\ j > 1
                 /\ name[j] \in Upper
                 /\ \/ name[j - 1] \in Lower
                    \/ name[j - 1] \in Upper /\ j < Len(name) /\ name[j + 1] \in Lower
         IN  (IF boundary THEN <<"-">> ELSE <<>>) \o <<ToLower(name[j])>> \o Kebab(name, j + 1)

Unsupported(ty) ==
    <<"U", "N", "S", "U", "P", "P", "O", "R", "T", "E", "D", "_",
      "V", "A", "R", "I", "A", "B", "L", "E", "_", "V", "A", "L", "U", "E", "(">>
    \o ty \o <<")">>

\* The sequence of texts render_value writes, one per write!.
RECURSIVE render_value(_)
render_value(value) ==
    IF value.k = "Value" /\ value.ty = "bool"
    THEN <<IF value.b THEN <<"t", "r", "u", "e">> ELSE <<"f", "a", "l", "s", "e">>>>
    ELSE IF value.k = "Value" /\ value.ty = "i32" THEN <<Decimal(value.n)>>
    ELSE IF value.k = "Value" /\ value.ty = "String" THEN <<escape(value.s)>>
    ELSE IF value.k = "TupleStruct" /\ value.ty = UnescapedTy THEN <<value.items[1].s>>
    ELSE IF is_option(value)
    THEN IF option_value(value) = Absent THEN <<>> ELSE render_value(option_value(value))
    ELSE IF value.k = "Enum" /\ value.vt = "Unit" THEN <<Kebab(value.variant, 1)>>
    ELSE IF value.k = "Enum" /\ value.vt = "Tuple" /\ Len(value.fields) = 1
    THEN render_value(value.fields[1].value)
    ELSE IF value.k = "TupleStruct" /\ Len(value.items) = 1
    THEN render_value(value.items[1])
    ELSE <<Unsupported(value.ty)>>

(***************************************************************************)
(* reflect_render.rs: Renderer::render_parts.  A rendering is the sequence *)
(* of texts written (w), how it ended (st) and the writer it leaves        *)
(* (sink).  Every write! is one write to the writer.  The writer of        *)
(* render_to_string is a Vec<u8>, whose writes do not fail; the writer     *)
(* given to Templates::render may fail a write.  The unbounded recursion   *)
(* of a cycle of Includes is cut at MaxDepth nested Includes ("Overflow"). *)
(***************************************************************************)
MaxDepth == 3

\* A writer that has taken no write yet and fails its write number fail_at
\* (no write when fail_at = 0); every other write it accepts.
Sink(fail_at) == [fail_at |-> fail_at, n |-> 0]

\* The Vec<u8> of render_to_string.
VecSink == Sink(0)

Done(sink) == [w |-> <<>>, st |-> "Ok", sink |-> sink]
Overflow(sink) == [w |-> <<>>, st |-> "Overflow", sink |-> sink]

\* write!(self.writer, "{}", text): formatting an empty text reaches the
\* writer with nothing to write.
Write(text, sink) ==
    IF text = <<>> THEN Done(sink)
    ELSE IF sink.n + 1 = sink.fail_at
    THEN [w |-> <<>>, st |-> "Err", sink |-> [sink EXCEPT !.n = @ + 1]]
    ELSE [w |-> <<text>>, st |-> "Ok", sink |-> [sink EXCEPT !.n = @ + 1]]

\* What r wrote and then what s, which went on from r, wrote.
Join(r, s) == [w |-> r.w \o s.w, st |-> s.st, sink |-> s.sink]

RECURSIVE render_from(_, _, _, _, _, _)
RECURSIVE render_each(_, _, _, _, _, _)

render_parts(self, parts, data, depth, sink) == render_from(self, parts, 1, data, depth, sink)

\* A list section that renders its body for the last element only.
render_each_last_only(self, parts, items, j, depth, sink) ==
    IF j > Len(items) THEN Done(sink)
    ELSE render_parts(self, parts, items[Len(items)], depth, sink)

\* A loop that goes on to the next item after a failed one.
each_next_lenient(self, parts, items, j, depth, r) ==
    Join(r, render_each(self, parts, items, j + 1, depth, r.sink))

\* `self.render_parts(parts, item)?;` and the next turn of the loop
each_next(self, parts, items, j, depth, r) ==
    IF r.st # "Ok" THEN r
    ELSE Join(r, render_each(self, parts, items, j + 1, depth, r.sink))

\* `for item in list.iter() { self.render_parts(parts, item)?; }`
render_each(self, parts, items, j, depth, sink) ==
    IF j > Len(items) THEN Done(sink)
    ELSE each_next(self, parts, items, j, depth,
                   render_parts(self, parts, items[j], depth, sink))

\* `self.render_value(data)?` for the value a Variable resolved to
write_texts(texts, sink) == IF texts = <<>> THEN Done(sink) ELSE Write(texts[1], sink)

render_variable(acc, data, sink) ==
    IF get_path(data, acc) = Absent THEN Done(sink)
    ELSE write_texts(render_value(get_path(data, acc)), sink)

\* A Section that renders its body once against whatever its path resolves
\* to.
render_section_once(self, acc, parts, scope, depth, sink) ==
    IF get_path(scope, acc) = Absent THEN Done(sink)
    ELSE render_parts(self, parts, get_path(scope, acc), depth, sink)

\* Inside `if let Some(data) = get_path(data, access)` the name data is the
\* resolved value: it is what the body is rendered against.
render_section(self, acc, parts, scope, depth, sink) ==
    LET data == get_path(scope, acc)
    IN  IF data = Absent THEN Done(sink)
        ELSE IF data.k \in {"List", "TupleStruct", "Tuple", "Array"}
        THEN render_each(self, parts, data.items, 1, depth, sink)
        ELSE IF data.k = "Value" /\ data.ty = "bool"
        THEN IF data.b THEN render_parts(self, parts, data, depth, sink) ELSE Done(sink)
        ELSE IF data.k = "Value" /\ data.ty = "String"
        THEN IF data.s = <<>> THEN Done(sink) ELSE render_parts(self, parts, data, depth, sink)
        ELSE IF is_option(data)
        THEN IF option_value(data) = Absent THEN Done(sink)
             ELSE render_parts(self, parts, option_value(data), depth, sink)
        ELSE render_parts(self, parts, data, depth, sink)

\* Whether the InvertedSection arm renders its body.
inverted_renders(path_data) ==
    \/ path_data = Absent
    \/ path_data.k = "List" /\ path_data.items = <<>>
    \/ path_data.k = "Array" /\ path_data.items = <<>>
    \/ is_option(path_data) /\ path_data.variant = NoneName
    \/ path_data.k = "Value" /\ path_data.ty = "bool" /\ ~path_data.b
    \/ path_data.k = "Value" /\ path_data.ty = "String" /\ path_data.s = <<>>

render_inverted_section(self, acc, parts, data, depth, sink) ==
    IF inverted_renders(get_path(data, acc))
    THEN render_parts(self, parts, data, depth, sink)
    ELSE Done(sink)

\* An Include that renders the named template against no scope at all.
render_include_unscoped(self, name, data, depth, sink) ==
    IF name \in DOMAIN self
    THEN IF depth >= MaxDepth THEN Overflow(sink)
         ELSE render_parts(self, self[name], Absent, depth + 1, sink)
    ELSE Done(sink)

\* An Include for which an unregistered name is an error.
render_include_strict(self, name, data, depth, sink) ==
    IF name \in DOMAIN self
    THEN IF depth >= MaxDepth THEN Overflow(sink)
         ELSE render_parts(self, self[name], data, depth + 1, sink)
    ELSE [w |-> <<>>, st |-> "Err", sink |-> sink]

\* An Include that renders some registered template, whatever its name.
render_include_any(self, name, data, depth, sink) ==
    IF depth >= MaxDepth THEN Overflow(sink)
    ELSE render_parts(self, self[CHOOSE n \in DOMAIN self : TRUE], data, depth + 1, sink)

render_include(self, name, data, depth, sink) ==
    IF name \in DOMAIN self
    THEN IF depth >= MaxDepth THEN Overflow(sink)
         ELSE render_parts(self, self[name], data, depth + 1, sink)
    ELSE Done(sink)

render_part(self, part, data, depth, sink) ==
    IF part.part = "Text" THEN Write(part.text, sink)
    ELSE IF part.part = "Variable" THEN render_variable(part.access, data, sink)
    ELSE IF part.part = "Section"
    THEN render_section(self, part.access, part.parts, data, depth, sink)
    ELSE IF part.part = "InvertedSection"
    THEN render_inverted_section(self, part.access, part.parts, data, depth, sink)
    ELSE IF part.part = "Include" THEN render_include(self, part.name, data, depth, sink)
    ELSE Done(sink)

\* The `?` after a part and the next turn of the loop
from_next(self, parts, j, data, depth, r) ==
    IF r.st # "Ok" THEN r
    ELSE Join(r, render_from(self, parts, j + 1, data, depth, r.sink))

\* `for part in parts.iter() { ... ? }`
render_from(self, parts, j, data, depth, sink) ==
    IF j > Len(parts) THEN Done(sink)
    ELSE from_next(self, parts, j, data, depth,
                   render_part(self, parts[j], data, depth, sink))

\* Renderer::render
render(self, template, data, sink) ==
    IF template \in DOMAIN self
    THEN render_parts(self, self[template], data, 0, sink)
    ELSE Done(sink)

(***************************************************************************)
(* compiler.rs: Compiler.  The template is a list of Expr (String, Var,    *)
(* Section { var, body }); the bytecode is a sequence of bytes.            *)
(***************************************************************************)
ExprString(s) == [expr |-> "String", string |-> s]
ExprVar(name) == [expr |-> "Var", name |-> name]
ExprSection(var, body) == [expr |-> "Section", var |-> var, body |-> body]

\* vm.rs: OpCode
PushStr == 1
PushVar == 2
StartSection == 3
EndSection == 4
WriteVar == 7

\* The characters U+0020 to U+007E in the order of their codes.  A TLA+
\* string cannot hold U+0060: a tab keeps its place.
Printable ==
    <<" ", "!", "\"", "#", "$", "%", "&", "'", "(", ")", "*", "+",
      ",", "-", ".", "/", "0", "1", "2", "3", "4", "5", "6", "7",
      "8", "9", ":", ";", "<", "=", ">", "?", "@", "A", "B", "C",
      "D", "E", "F", "G", "H", "I", "J", "K", "L", "M", "N", "O",
      "P", "Q", "R", "S", "T", "U", "V", "W", "X", "Y", "Z", "[",
      "\\", "]", "^", "_", "\t", "a", "b", "c", "d", "e", "f", "g",
      "h", "i", "j", "k", "l", "m", "n", "o", "p", "q", "r", "s",
      "t", "u", "v", "w", "x", "y", "z", "{", "|", "}", "~">>

\* str::as_bytes and from_utf8_unchecked on such characters
as_bytes(s) == [j \in 1..Len(s) |-> 31 + (CHOOSE b \in 1..Len(Printable) : Printable[b] = s[j])]
from_utf8_unchecked(bytes) == [j \in 1..Len(bytes) |-> Printable[bytes[j] - 31]]

\* The first k bytes of u64::to_le_bytes
RECURSIVE to_le_bytes(_, _)
to_le_bytes(value, k) ==
    IF k = 0 THEN <<>> ELSE <<value % 256>> \o to_le_bytes(value \div 256, k - 1)

compile_u64(value) == to_le_bytes(value, 8)

compile_bytes(value) == compile_u64(Len(value)) \o value

RECURSIVE compile_exprs(_, _)
compile_expr(expr) ==
    IF expr.expr = "String" THEN <<PushStr>> \o compile_bytes(as_bytes(expr.string))
    ELSE IF expr.expr = "Section"
    THEN <<StartSection>> \o compile_bytes(as_bytes(expr.var))
         \o compile_exprs(expr.body, 1) \o <<EndSection>>
    ELSE <<PushVar>> \o compile_bytes(as_bytes(expr.name)) \o <<WriteVar>>

\* `for expr in exprs.into_iter() { self.compile_expr(expr); }`
compile_exprs(exprs, j) ==
    IF j > Len(exprs) THEN <<>>
    ELSE compile_expr(exprs[j]) \o compile_exprs(exprs, j + 1)

\* Compiler::compile
compile(exprs) == compile_exprs(exprs, 1)

(***************************************************************************)
(* vm.rs.  The machine is the buffer, the position of the cursor in the    *)
(* bytecode (the number of bytes before it), the value stack and how the   *)
(* execution stands: "Ok", the name of the Error it returned, or "Panic"   *)
(* for an unwrap of None and for a slice out of range.                     *)
(***************************************************************************)
Machine(buf, pos, stack, st) == [buf |-> buf, pos |-> pos, stack |-> stack, st |-> st]

Stopped(m, st) == [m EXCEPT !.st = st]

\* read_u64::<LittleEndian> of the k bytes at pos
RECURSIVE read_le(_, _, _)
read_le(bytecode, pos, k) ==
    IF k = 0 THEN 0 ELSE bytecode[pos + 1] + 256 * read_le(bytecode, pos + 1, k - 1)

\* The slice [start..end] of read_str and the position after it
read_slice(bytecode, start, len) ==
    IF start + len > Len(bytecode) THEN [st |-> "Panic", pos |-> start, str |-> <<>>]
    ELSE [st |-> "Ok", pos |-> start + len,
          str |-> from_utf8_unchecked(SubSeq(bytecode, start + 1, start + len))]

read_str(bytecode, pos) ==
    IF pos + 8 > Len(bytecode) THEN [st |-> "Io", pos |-> pos, str |-> <<>>]
    ELSE read_slice(bytecode, pos + 8, read_le(bytecode, pos, 8))

\* GetPath::reflect_path for a path that is one field name
reflect_path(value, path) ==
    IF value.k = "Struct" \/ (value.k = "Enum" /\ value.vt = "Struct")
    THEN FieldNamed(value.fields, path)
    ELSE Absent

\* write_value: the text pushed to the buffer, or the Error
RECURSIVE write_value(_)
write_value(value) ==
    IF value.k = "Value" /\ value.ty = "String" THEN [st |-> "Ok", text |-> value.s]
    ELSE IF value.k = "Value" /\ value.ty = "bool"
    THEN [st |-> "Ok",
          text |-> IF value.b THEN <<"t", "r", "u", "e">> ELSE <<"f", "a", "l", "s", "e">>]
    ELSE IF value.k = "Value" /\ value.ty = "i32" THEN [st |-> "Ok", text |-> Decimal(value.n)]
    ELSE IF value.k = "Enum" /\ value.option
    THEN IF At(FieldValues(value.fields), 0) = Absent THEN [st |-> "Ok", text |-> <<>>]
         ELSE write_value(At(FieldValues(value.fields), 0))
    ELSE [st |-> "UnsupportedType", text |-> <<>>]

\* write_str, given what read_str read
write_str(m, r) ==
    IF r.st # "Ok" THEN Stopped(m, r.st)
    ELSE [m EXCEPT !.buf = @ \o r.str, !.pos = r.pos]

\* The PushVar arm, given what read_str read
push_var(m, r) ==
    IF r.st # "Ok" THEN Stopped(m, r.st)
    ELSE IF m.stack = <<>> THEN Stopped(m, "Panic")
    ELSE IF reflect_path(m.stack[Len(m.stack)], r.str) = Absent THEN Stopped(m, "InvalidField")
    ELSE [m EXCEPT !.stack = Append(@, reflect_path(m.stack[Len(m.stack)], r.str)),
                   !.pos = r.pos]

\* The WriteVar arm, given what write_value made of the top of the stack
written(m, r) ==
    IF r.st # "Ok" THEN Stopped(m, r.st)
    ELSE [m EXCEPT !.buf = @ \o r.text, !.stack = SubSeq(@, 1, Len(@) - 1)]

write_var(m) ==
    IF m.stack = <<>> THEN Stopped(m, "Panic")
    ELSE written(m, write_value(m.stack[Len(m.stack)]))

RECURSIVE execute(_, _)
RECURSIVE execute_iter(_, _, _, _, _)
RECURSIVE execute_skip(_, _)

\* A loop that leaves the item on the stack.
iter_keep(m) == m

\* `stack.pop()` after `execute(buf, bytecode, stack)?`
iter_pop(m) ==
    IF m.st # "Ok" THEN m ELSE [m EXCEPT !.stack = SubSeq(@, 1, Len(@) - 1)]

execute_iter(bytecode, m, items, j, start_pos) ==
    IF m.st # "Ok" \/ j > Len(items) THEN m
    ELSE execute_iter(bytecode,
                      iter_pop(execute(bytecode,
                                       [m EXCEPT !.stack = Append(@, items[j]),
                                                 !.pos = start_pos])),
                      items, j + 1, start_pos)

\* `let mut depth = 0;` is inside the loop: depth is 1 after a StartSection
\* and -1 after an EndSection, which is the only place it is compared to 0.
skip_op(bytecode, m, pc) ==
    IF pc \notin {PushStr, PushVar, StartSection, EndSection, WriteVar}
    THEN Stopped(m, "InvalidOpCode")
    ELSE IF pc = EndSection /\ 0 - 1 = 0 THEN m
    ELSE execute_skip(bytecode, m)

execute_skip(bytecode, m) ==
    IF m.pos >= Len(bytecode) THEN m
    ELSE skip_op(bytecode, [m EXCEPT !.pos = @ + 1], bytecode[m.pos + 1])

\* The match on the value a section's path resolved to
section_value(bytecode, m, value) ==
    IF value = Absent THEN Stopped(m, "InvalidField")
    ELSE IF value.k \in {"Tuple", "List", "Array"}
    THEN execute_iter(bytecode, m, value.items, 1, m.pos)
    ELSE IF value.k = "Map"
    THEN execute_iter(bytecode, m, [j \in 1..Len(value.entries) |-> value.entries[j].key],
                      1, m.pos)
    ELSE Stopped(m, "UnsupportedSectionVar")

section_on(bytecode, m, path, last) ==
    IF last.k = "Enum"
    THEN IF last.variant = path THEN execute(bytecode, m) ELSE execute_skip(bytecode, m)
    ELSE section_value(bytecode, m, reflect_path(last, path))

\* The StartSection arm, given what read_str read
start_section(bytecode, m, r) ==
    IF r.st # "Ok" THEN Stopped(m, r.st)
    ELSE IF m.stack = <<>> THEN Stopped(m, "Panic")
    ELSE section_on(bytecode, [m EXCEPT !.pos = r.pos], r.str, m.stack[Len(m.stack)])

\* The match on the opcode read at the position before m.pos
execute_op(bytecode, m, pc) ==
    IF pc \notin {PushStr, PushVar, StartSection, EndSection, WriteVar}
    THEN Stopped(m, "InvalidOpCode")
    ELSE IF pc = PushStr THEN execute(bytecode, write_str(m, read_str(bytecode, m.pos)))
    ELSE IF pc = PushVar THEN execute(bytecode, push_var(m, read_str(bytecode, m.pos)))
    ELSE IF pc = WriteVar THEN execute(bytecode, write_var(m))
    ELSE IF pc = StartSection
    THEN execute(bytecode, start_section(bytecode, m, read_str(bytecode, m.pos)))
    ELSE m

\* execute: read_opcode gives None at the end of the bytecode
execute(bytecode, m) ==
    IF m.st # "Ok" \/ m.pos >= Len(bytecode) THEN m
    ELSE execute_op(bytecode, [m EXCEPT !.pos = @ + 1], bytecode[m.pos + 1])

execute_to(bytecode, root) == execute(bytecode, Machine(<<>>, 0, <<root>>, "Ok"))

(***************************************************************************)
(* render.rs: the renderer on valuable's Value, with a stack of scopes.    *)
(* Its Part holds a path, a non-empty list of Field (Named, Index, This),  *)
(* where reflect_render.rs's holds an Access.  A value is seen as the      *)
(* Value its as_value() gives: an Option is the Value of what it holds, or *)
(* Unit.  The outcome of a step is the text it wrote, how it ended, and    *)
(* scopes, the stack that each Text and Variable part was rendered with.   *)
(***************************************************************************)
FieldThis == [field |-> "This"]

Unit == [k |-> "Unit"]

RECURSIVE as_value(_)
as_value(v) ==
    IF v.k = "Enum" /\ v.option
    THEN IF v.variant = SomeName THEN as_value(At(FieldValues(v.fields), 0)) ELSE Unit
    ELSE v

ValuesOf(vs) == [j \in 1..Len(vs) |-> as_value(vs[j])]

\* Renderer::new
new(initial) == <<as_value(initial)>>

\* A scope pushed twice.
append_twice(stack, value) == Append(Append(stack, value), value)

\* Renderer::append
append(stack, value) == Append(stack, value)

Wrote(text, stack) == [w |-> text, st |-> "Ok", scopes |-> <<stack>>]

Nothing == [w |-> <<>>, st |-> "Ok", scopes |-> <<>>]

Then2(r, s) == [w |-> r.w \o s.w, st |-> s.st, scopes |-> r.scopes \o s.scopes]

\* render_result: Ok(false), and Ok(true) with the text written
NotRendered == [done |-> FALSE, text |-> <<>>]

Rendered(text) == [done |-> TRUE, text |-> text]

\* Variable::render_value
Variable_render_value(value) ==
    IF value.k = "Value" /\ value.ty = "String" THEN Rendered(escape(value.s))
    ELSE IF value.k = "Value" /\ value.ty = "bool"
    THEN Rendered(IF value.b THEN <<"t", "r", "u", "e">> ELSE <<"f", "a", "l", "s", "e">>)
    ELSE IF value.k = "Value" /\ value.ty = "i32" THEN Rendered(escape(Decimal(value.n)))
    ELSE NotRendered

\* The value of the map's entry whose key is the String name, or Absent.
EntryNamed(entries, name) ==
    IF \E j \in 1..Len(entries) : entries[j].key = String(name)
    THEN entries[CHOOSE j \in 1..Len(entries) : entries[j].key = String(name)].value
    ELSE Absent

\* What the visit of a value hands to visit_named_fields, visit_entry or
\* visit_unnamed_fields for the first field of the path: the value there,
\* or Absent when the value has no such field or is visited in no such way.
Visited(value, field) ==
    IF value.k = "Struct" \/ (value.k = "Enum" /\ value.vt = "Struct")
    THEN IF field.field = "Named" THEN FieldNamed(value.fields, field.name) ELSE Absent
    ELSE IF value.k = "Map"
    THEN IF field.field = "Named" THEN EntryNamed(value.entries, field.name) ELSE Absent
    ELSE IF value.k \in {"TupleStruct", "Tuple"}
    THEN IF field.field = "Index" THEN At(value.items, field.n) ELSE Absent
    ELSE IF value.k = "Enum"
    THEN IF field.field = "Index" THEN At(FieldValues(value.fields), field.n) ELSE Absent
    ELSE Absent

RECURSIVE Variable_visit_value(_, _)

\* Variable::handle_value
Variable_handle_value(path, value) ==
    IF Len(path) = 1 THEN Variable_render_value(value)
    ELSE Variable_visit_value(Tail(path), value)

\* visit_named_fields, visit_entry and visit_unnamed_fields of Variable
Variable_visit_fields(path, value) ==
    IF Visited(value, path[1]) = Absent THEN NotRendered
    ELSE Variable_handle_value(path, as_value(Visited(value, path[1])))

Variable_visit_value(path, value) ==
    IF path = <<FieldThis>> THEN Variable_render_value(value)
    ELSE IF value.k = "Enum" /\ Len(path) > 1
    THEN IF Named(value.variant) = path[1] THEN Variable_visit_fields(Tail(path), value)
         ELSE NotRendered
    ELSE Variable_visit_fields(path, value)

\* `for value in self.stack.iter().rev()`, from the scope i down
RECURSIVE Variable_in(_, _, _)
Variable_found(stack, path, i, r) ==
    IF r.done THEN Wrote(r.text, stack) ELSE Variable_in(stack, path, i - 1)

Variable_in(stack, path, i) ==
    IF i = 0 THEN Wrote(<<>>, stack)
    ELSE Variable_found(stack, path, i, Variable_visit_value(path, stack[i]))

RECURSIVE Renderer_render_parts(_, _, _, _, _)
RECURSIVE Section_visit_value(_, _, _, _, _, _)

\* ListSection::visit_value for the items from j on
RECURSIVE ListSection_visit(_, _, _, _, _, _)
ListSection_next(self, stack, parts, items, j, depth, r) ==
    IF r.st # "Ok" THEN r
    ELSE Then2(r, ListSection_visit(self, stack, parts, items, j + 1, depth))

ListSection_visit(self, stack, parts, items, j, depth) ==
    IF j > Len(items) THEN Nothing
    ELSE ListSection_next(self, stack, parts, items, j, depth,
                          IF items[j] = Unit THEN Nothing
                          ELSE Renderer_render_parts(self, append(stack, items[j]), parts, 1,
                                                     depth))

\* Section::render_value
Section_render_value(self, stack, parts, value, depth) ==
    IF value.k \in {"List", "Array"}
    THEN ListSection_visit(self, stack, parts, ValuesOf(value.items), 1, depth)
    ELSE IF value = Bool(TRUE) THEN Renderer_render_parts(self, stack, parts, 1, depth)
    ELSE IF value = Bool(FALSE) \/ value = Unit THEN Nothing
    ELSE Renderer_render_parts(self, append(stack, value), parts, 1, depth)

\* Section::handle_value
Section_handle_value(self, stack, path, parts, value, depth) ==
    IF Len(path) = 1 THEN Section_render_value(self, stack, parts, value, depth)
    ELSE Section_visit_value(self, append(stack, value), Tail(path), parts, value, depth)

\* visit_named_fields, visit_entry and visit_unnamed_fields of Section
Section_visit_fields(self, stack, path, parts, value, depth) ==
    IF Visited(value, path[1]) = Absent THEN Nothing
    ELSE Section_handle_value(self, stack, path, parts, as_value(Visited(value, path[1])),
                              depth)

Section_visit_value(self, stack, path, parts, value, depth) ==
    IF value.k \in {"Struct", "TupleStruct", "Map", "Tuple"}
    THEN Section_visit_fields(self, stack, path, parts, value, depth)
    ELSE IF value.k = "Enum" /\ path[1] = Named(value.variant)
    THEN Renderer_render_parts(self, append(stack, value), parts, 1, depth)
    ELSE Nothing

\* An InvertedSection that renders its body for a value that is present.
InvertedSection_render_present(self, stack, parts, value, depth) ==
    IF value # Absent THEN Renderer_render_parts(self, stack, parts, 1, depth) ELSE Nothing

\* InvertedSection::render_parts; Absent is the None of Option<&Value>
InvertedSection_render_parts(self, stack, parts, value, depth) ==
    IF value = Absent \/ value = Bool(FALSE) \/ value = Unit
    THEN Renderer_render_parts(self, stack, parts, 1, depth)
    ELSE IF value.k \in {"List", "Array"} /\ value.items = <<>>
    THEN Renderer_render_parts(self, stack, parts, 1, depth)
    ELSE IF value.k = "Map" /\ value.entries = <<>>
    THEN Renderer_render_parts(self, stack, parts, 1, depth)
    ELSE Nothing

\* InvertedSection::handle_value
InvertedSection_handle_value(self, stack, path, parts, value, depth) ==
    IF Len(path) = 1 THEN InvertedSection_render_parts(self, stack, parts, value, depth)
    ELSE IF value # Absent
    THEN Section_visit_value(self, append(stack, value), Tail(path), parts, value, depth)
    ELSE Nothing

\* InvertedSection's visit_value, visit_named_fields and visit_unnamed_fields
InvertedSection_visit_value(self, stack, path, parts, value, depth) ==
    IF (value.k = "Struct" /\ path[1].field = "Named")
       \/ (value.k = "TupleStruct" /\ path[1].field = "Index")
    THEN InvertedSection_handle_value(self, stack, path, parts,
                                      as_value(Visited(value, path[1])), depth)
    ELSE Nothing

\* Renderer::render_part
Renderer_render_part(self, stack, part, depth) ==
    IF part.part = "Text" THEN Wrote(part.text, stack)
    ELSE IF part.part = "Variable" THEN Variable_in(stack, part.access, Len(stack))
    ELSE IF part.part = "Section"
    THEN IF stack = <<>> THEN Nothing
         ELSE Section_visit_value(self, stack, part.access, part.parts, stack[Len(stack)],
                                  depth)
    ELSE IF part.part = "InvertedSection"
    THEN IF stack = <<>> THEN Nothing
         ELSE InvertedSection_visit_value(self, stack, part.access, part.parts,
                                          stack[Len(stack)], depth)
    ELSE IF part.part = "Include"
    THEN IF part.name \notin DOMAIN self THEN Nothing
         ELSE IF depth >= MaxDepth THEN [w |-> <<>>, st |-> "Overflow", scopes |-> <<>>]
         ELSE Renderer_render_parts(self, stack, self[part.name], 1, depth + 1)
    ELSE Nothing

\* The `?` after a part and the next turn of render_parts' loop
Renderer_next(self, stack, parts, j, depth, r) ==
    IF r.st # "Ok" THEN r
    ELSE Then2(r, Renderer_render_parts(self, stack, parts, j + 1, depth))

\* Renderer::render_parts, from the part j on
Renderer_render_parts(self, stack, parts, j, depth) ==
    IF j > Len(parts) THEN Nothing
    ELSE Renderer_next(self, stack, parts, j, depth,
                       Renderer_render_part(self, stack, parts[j], depth))

\* Renderer::render
Renderer_render(self, stack, template_name) ==
    IF template_name \in DOMAIN self
    THEN Renderer_render_parts(self, stack, self[template_name], 1, 0)
    ELSE Nothing

\* The buffer after the writes w.
RECURSIVE Concat(_)
Concat(w) == IF w = <<>> THEN <<>> ELSE Head(w) \o Concat(Tail(w))

(***************************************************************************)
(* The inputs: template sources, directories of template files and root    *)
(* values, after the templates and the data of the tests of templates.rs   *)
(* and template.rs.  Field names are a, b, c; a is the field the data      *)
(* varies, b a string beside it, c the field of a list item.               *)
(***************************************************************************)
MaxListLen == 3     \* the longest list a section iterates
MaxStrLen == 2      \* the longest string value checked for escaping
MaxTextLen == 2     \* the longest tag-free source
MaxTags == 3        \* the most tags and texts of a generated section source
MaxWrites == 4      \* the latest write a failing writer fails

Tag(sigil, body) == <<"{", "{">> \o sigil \o body \o <<"}", "}">>
Quoted(n) == <<"\"">> \o n \o <<"\"">>

Main == <<"m", "a", "i", "n">>
Customer == <<"C", "u", "s", "t", "o", "m", "e", "r">>
Admin == <<"A", "d", "m", "i", "n">>

Src ==
    [ \* {{#a}}{{c}}, {{/a}}
      list |-> Tag(<<"#">>, <<"a">>) \o Tag(<<>>, <<"c">>) \o <<",", " ">>
               \o Tag(<<"/">>, <<"a">>),
      \* {{#a}}{{.}},{{/a}}
      thislist |-> Tag(<<"#">>, <<"a">>) \o Tag(<<>>, <<".">>) \o <<",">>
                   \o Tag(<<"/">>, <<"a">>),
      \* {{#a}}E{{b}}.{{/a}}
      section |-> Tag(<<"#">>, <<"a">>) \o <<"E">> \o Tag(<<>>, <<"b">>) \o <<".">>
                  \o Tag(<<"/">>, <<"a">>),
      \* {{^a}}B{{/a}}
      inverted |-> Tag(<<"^">>, <<"a">>) \o <<"B">> \o Tag(<<"/">>, <<"a">>),
      \* {{#a}}{{#b}}X{{/b}}{{^b}}Y{{/b}}{{/a}}
      nested |-> Tag(<<"#">>, <<"a">>) \o Tag(<<"#">>, <<"b">>) \o <<"X">>
                 \o Tag(<<"/">>, <<"b">>) \o Tag(<<"^">>, <<"b">>) \o <<"Y">>
                 \o Tag(<<"/">>, <<"b">>) \o Tag(<<"/">>, <<"a">>),
      \* {{#Customer}}P{{c}}{{/Customer}}
      variant |-> Tag(<<"#">>, Customer) \o <<"P">> \o Tag(<<>>, <<"c">>)
                  \o Tag(<<"/">>, Customer),
      \* {{.}}
      this |-> Tag(<<>>, <<".">>),
      \* <{{a}}/>
      var |-> <<"<">> \o Tag(<<>>, <<"a">>) \o <<"/", ">">>,
      \* H{{>"p"}}T
      include |-> <<"H">> \o Tag(<<">">>, Quoted(<<"p">>)) \o <<"T">>,
      \* {{#a}}{{> "p" }};{{/a}}
      includeeach |-> Tag(<<"#">>, <<"a">>) \o Tag(<<">">>, <<" ">> \o Quoted(<<"p">>) \o <<" ">>)
                      \o <<";">> \o Tag(<<"/">>, <<"a">>),
      \* {{>"q"}}T
      missing |-> Tag(<<">">>, Quoted(<<"q">>)) \o <<"T">>,
      \* x{{>"main"}}
      cycle |-> <<"x">> \o Tag(<<">">>, Quoted(Main)),
      \* [{{c}}{{b}}]
      partial |-> <<"[">> \o Tag(<<>>, <<"c">>) \o Tag(<<>>, <<"b">>) \o <<"]">>,
      \* ({{a.c}}|{{a[1]}}|{{a.0}}){{#a.c.d}}S{{/a.c.d}}.
      paths |-> <<"(">> \o Tag(<<>>, <<"a", ".", "c">>) \o <<"|">>
                \o Tag(<<>>, <<"a", "[", "1", "]">>) \o <<"|">>
                \o Tag(<<>>, <<"a", ".", "0">>) \o <<")">>
                \o Tag(<<"#">>, <<"a", ".", "c", ".", "d">>) \o <<"S">>
                \o Tag(<<"/">>, <<"a", ".", "c", ".", "d">>) \o <<".">>,
      \* {{#a}}X{{/a}}{{^a}}Y{{/a}}
      both |-> Tag(<<"#">>, <<"a">>) \o <<"X">> \o Tag(<<"/">>, <<"a">>)
               \o Tag(<<"^">>, <<"a">>) \o <<"Y">> \o Tag(<<"/">>, <<"a">>),
      \* {{#a}}i{{/a}}{{.}}
      partialsection |-> Tag(<<"#">>, <<"a">>) \o <<"i">> \o Tag(<<"/">>, <<"a">>)
                         \o Tag(<<>>, <<".">>) ]

\* All sequences over chars of length at most n.
RECURSIVE SeqsUpTo(_, _)
SeqsUpTo(chars, n) ==
    IF n = 0 THEN {<<>>}
    ELSE LET shorter == SeqsUpTo(chars, n - 1)
         IN  shorter \cup {Append(s, c) : s \in shorter, c \in chars}

\* The sources with no tag-opening sequence.
TextSources ==
    {s \in SeqsUpTo({"x", "{", "}", "\\"}, MaxTextLen) : Find(s, 1, <<"{", "{">>) = 0}

File(n, s) == [name |-> n, src |-> s]

Directories ==
    {<<File(Main, Src[l])>> :
        l \in {"list", "thislist", "section", "inverted", "nested", "variant", "this",
               "var", "include", "includeeach", "missing", "cycle", "paths", "both"}}
    \cup {<<File(<<"p">>, Src[l]), File(Main, Src[m])>> :
            l \in {"partial", "partialsection"}, m \in {"include", "includeeach"}}
    \cup {<<File(Main, s)>> : s \in TextSources}

\* The path texts, sigils and fragments of the generated section sources;
\* the last fragment is a comment.
PathTexts == {<<"a">>, <<"b">>, <<" ", "a">>, <<"a", ".", "b">>}

Fragments ==
    {Tag(<<sigil>>, p) : sigil \in {"#", "^", "/"}, p \in PathTexts}
    \cup {<<"x">>, <<"\\", "{", "{", "c", "}", "}">>}

RECURSIVE FragmentSources(_)
FragmentSources(n) ==
    IF n = 0 THEN {<<>>}
    ELSE LET shorter == FragmentSources(n - 1)
         IN  shorter \cup {s \o f : s \in shorter, f \in Fragments}

Item(j) == Struct(<<"I", "t", "e", "m">>, <<Field(<<"c">>, String(<<Digits[j + 1]>>))>>)

ListItems(n) == List([j \in 1..n |-> Item(j)])

FieldValues1 ==
    {Bool(TRUE), Bool(FALSE), String(<<>>), String(<<"s">>), I32(33), I32(0),
     List(<<Some(Item(1)), None, Some(Item(2))>>),
     Map(<<>>), Map(<<[key |-> String(<<"c">>), value |-> String(<<"v">>)]>>),
     Array(<<>>), Array(<<Item(1)>>), Tuple(<<String(<<"t">>), I32(42)>>), Tuple(<<>>),
     Item(1), None, Some(Item(1)), Some(Bool(FALSE)),
     Enum(<<"U", "s", "e", "r">>, Customer, "Struct", <<Field(<<"c">>, String(<<"J">>))>>),
     Enum(<<"U", "s", "e", "r">>, Admin, "Unit", <<>>),
     Some(Enum(<<"U", "s", "e", "r">>, Customer, "Struct", <<Field(<<"c">>, String(<<"J">>))>>)),
     Some(Enum(<<"U", "s", "e", "r">>, Admin, "Unit", <<>>))}
    \cup {ListItems(n) : n \in 0..MaxListLen}
    \cup {List([j \in 1..n |-> String(<<Digits[j + 1]>>)]) : n \in 1..MaxListLen}

Ctx(fs) == Struct(<<"C", "t", "x">>, fs)

\* The root with a = v and b = "m".
CtxA(v) == Ctx(<<Field(<<"a">>, v), Field(<<"b">>, String(<<"m">>))>>)

\* The roots rendered to a failing writer.
SinkRoots ==
    {CtxA(ListItems(n)) : n \in 0..2}
    \cup {Item(1), CtxA(Item(1)), CtxA(Bool(TRUE)), CtxA(String(<<"s">>))}

Roots ==
    FieldValues1
    \cup {CtxA(v) : v \in FieldValues1}
    \cup {Ctx(<<Field(<<"b">>, String(<<"m">>))>>)}
    \cup {String(s) : s \in SeqsUpTo({"<", ">", "&", "\"", "/", "'", "x"}, MaxStrLen)}
    \cup {Unescaped(s) : s \in SeqsUpTo({"<", ">", "&", "\"", "/", "'", "x"}, MaxStrLen)}

\* The programs given to the compiler: the shapes of vm.rs's test_write and
\* test_section, a section with parts after it, a section in a section, and
\* sections on the variants of an enum.
\* ({{a}})
TestWrite == <<ExprString(<<"(">>), ExprVar(<<"a">>), ExprString(<<")">>)>>

\* {{#a}}I{{c}}!{{/a}}
TestSection ==
    <<ExprSection(<<"a">>, <<ExprString(<<"I">>), ExprVar(<<"c">>), ExprString(<<"!">>)>>)>>

\* {{#a}}{{c}}{{/a}}{{b}}E
SectionThenVar ==
    <<ExprSection(<<"a">>, <<ExprVar(<<"c">>)>>), ExprVar(<<"b">>), ExprString(<<"E">>)>>

\* {{#a}}{{#a}}{{c}}{{/a}};{{/a}}E
NestedSection ==
    <<ExprSection(<<"a">>, <<ExprSection(<<"a">>, <<ExprVar(<<"c">>)>>), ExprString(<<";">>)>>),
      ExprString(<<"E">>)>>

\* {{#a}}T{{/a}}E
SectionThenText == <<ExprSection(<<"a">>, <<ExprString(<<"T">>)>>), ExprString(<<"E">>)>>

\* {{#Customer}}P{{/Customer}}E
VariantThenText == <<ExprSection(Customer, <<ExprString(<<"P">>)>>), ExprString(<<"E">>)>>

Programs ==
    {TestWrite, TestSection, SectionThenVar, NestedSection, SectionThenText, VariantThenText,
     <<ExprVar(<<"b">>), ExprVar(<<"a">>)>>,
     <<ExprSection(Customer, <<ExprVar(<<"c">>)>>)>>,
     <<ExprSection(Admin, <<>>)>>}

\* A list of n roots, the j-th with a list of j items as its a.
Rows(n) == List([j \in 1..n |-> CtxA(ListItems(j))])

VmRoots ==
    FieldValues1
    \cup {CtxA(v) : v \in FieldValues1}
    \cup {CtxA(Rows(n)) : n \in 1..2}
    \cup {Ctx(<<Field(<<"b">>, String(<<"m">>))>>), CtxA(String(<<"<", "x">>))}

\* The segments of the generated paths, each with the Field it stands for:
\* the segments that can begin a path, and the segments that can follow,
\* with the dot that separates them (an index needs none).
MaxSegments == 3

Segment(text, field) == [text |-> text, field |-> field]

FirstSegments ==
    {Segment(n, Named(n)) : n \in {<<"a">>, <<"b", "1">>, <<"_", "c">>}}
    \cup {Segment(<<"0">>, Nth(0)), Segment(<<"1", "2">>, Nth(12)),
          Segment(<<"[", "1", "]">>, Index(1)), Segment(<<"[", "1", "2", "]">>, Index(12))}

NextSegments ==
    {Segment(<<".">> \o seg.text, seg.field) : seg \in FirstSegments}
    \cup {Segment(<<"[", "1", "]">>, Index(1)), Segment(<<"[", "1", "2", "]">>, Index(12))}

RECURSIVE SegmentLists(_)
SegmentLists(n) ==
    IF n = 1 THEN {<<seg>> : seg \in FirstSegments}
    ELSE SegmentLists(n - 1)
         \cup {Append(segs, seg) : segs \in SegmentLists(n - 1), seg \in NextSegments}

RECURSIVE PathText(_)
PathText(segs) ==
    IF segs = <<>> THEN <<>> ELSE PathText(SubSeq(segs, 1, Len(segs) - 1)) \o segs[Len(segs)].text

\* A file main that is one variable tag on the path of segs, or on "." for
\* no segments.
PathFile(segs) ==
    [name |-> Main,
     src |-> Tag(<<>>, IF segs = <<>> THEN <<" ", ".", " ">> ELSE PathText(segs)),
     segs |-> segs]

\* The generated paths that may begin with a capital: all texts of at most
\* MaxPathLen of these characters.
MaxPathLen == 4

NonEmptySeqs(chars, n) == SeqsUpTo(chars, n) \ {<<>>}

\* A file main that is one variable tag on the path text.
TextFile(text) == [name |-> Main, src |-> Tag(<<>>, text), path |-> text]

\* The numerals of the generated numeral paths: 0, 00, 1, 12, 2^64,
\* 2^64 + 1 and 2^128.
Numerals ==
    {<<"0">>, <<"0", "0">>, <<"1">>, <<"1", "2">>,
     <<"1", "8", "4", "4", "6", "7", "4", "4", "0", "7", "3", "7", "0", "9", "5", "5", "1", "6", "1", "6">>,
     <<"1", "8", "4", "4", "6", "7", "4", "4", "0", "7", "3", "7", "0", "9", "5", "5", "1", "6", "1", "7">>,
     <<"3", "4", "0", "2", "8", "2", "3", "6", "6", "9", "2", "0", "9", "3", "8", "4", "6", "3", "4", "6", "3", "3", "7", "4", "6", "0", "7", "4", "3", "1", "7", "6", "8", "2", "1", "1", "4", "5", "6">>}

\* A file main that is a section opened on the numeral n and closed on m, or
\* for no m a variable tag on a[n].
NumeralFile(n, m) ==
    [name |-> Main,
     src |-> IF m = <<>> THEN Tag(<<>>, <<"a", "[">> \o n \o <<"]">>)
             ELSE Tag(<<"#">>, n) \o <<"x">> \o Tag(<<"/">>, m),
     open |-> n,
     close |-> m]

\* The templates rendered by render.rs, as the parts their sources stand
\* for, with a path for each tag.
\* The names the templates are registered under.
ScopeName == <<"s", "c", "o", "p", "e">>
DottedName == <<"d", "o", "t", "t", "e", "d">>
LacksName == <<"l", "a", "c", "k", "s">>
BothName == <<"b", "o", "t", "h">>
FrameName == <<"f", "r", "a", "m", "e">>
PartName == <<"p", "a", "r", "t">>
NestName == <<"n", "e", "s", "t">>

StackTemplates ==
    [name \in {ScopeName, DottedName, LacksName, BothName, FrameName, PartName, NestName} |->
       CASE name = ScopeName ->
              \* {{#b}}[{{a.c}}]{{/b}}
              <<Section(<<Named(<<"b">>)>>,
                        <<Text(<<"[">>), Variable(<<Named(<<"a">>), Named(<<"c">>)>>),
                          Text(<<"]">>)>>)>>
         [] name = DottedName ->
              \* {{^a.c}}Y{{/a.c}}
              <<InvertedSection(<<Named(<<"a">>), Named(<<"c">>)>>, <<Text(<<"Y">>)>>)>>
         [] name = LacksName ->
              \* {{#a}}{{^z}}Y{{/z}}{{/a}}
              <<Section(<<Named(<<"a">>)>>,
                        <<InvertedSection(<<Named(<<"z">>)>>, <<Text(<<"Y">>)>>)>>)>>
         [] name = BothName ->
              \* {{#a}}X{{/a}}{{^a}}Y{{/a}}
              <<Section(<<Named(<<"a">>)>>, <<Text(<<"X">>)>>),
                InvertedSection(<<Named(<<"a">>)>>, <<Text(<<"Y">>)>>)>>
         [] name = FrameName ->
              \* {{b}}{{#a}}X{{c}}{{/a}}{{^z}}N{{/z}}{{>part}}Z{{b}}
              <<Variable(<<Named(<<"b">>)>>),
                Section(<<Named(<<"a">>)>>, <<Text(<<"X">>), Variable(<<Named(<<"c">>)>>)>>),
                InvertedSection(<<Named(<<"z">>)>>, <<Text(<<"N">>)>>),
                Include(PartName), Text(<<"Z">>), Variable(<<Named(<<"b">>)>>)>>
         [] name = PartName ->
              \* [{{b}}]
              <<Text(<<"[">>), Variable(<<Named(<<"b">>)>>), Text(<<"]">>)>>
         [] name = NestName ->
              \* {{#a}}{{#a}}{{c}}{{/a}};{{/a}}E
              <<Section(<<Named(<<"a">>)>>,
                        <<Section(<<Named(<<"a">>)>>, <<Variable(<<Named(<<"c">>)>>)>>),
                          Text(<<";">>)>>),
                Text(<<"E">>)>>]

\* The root of the template scope: a = Item(1), and b a scope with its own a = y.
ScopeRoot(y) == Ctx(<<Field(<<"a">>, Item(1)), Field(<<"b">>, Ctx(<<Field(<<"a">>, y)>>))>>)

\* The root of the template dotted: a is a struct whose c is v, or that has no c.
DottedRoot(v) == CtxA(Ctx(IF v = Absent THEN <<>> ELSE <<Field(<<"c">>, v)>>))

DottedValues ==
    {Absent, None, Bool(FALSE), Bool(TRUE), List(<<>>), Map(<<>>), String(<<"s">>),
     ListItems(1), I32(0)}

StackRoots ==
    {CtxA(v) : v \in FieldValues1 \cup {List(<<None, None>>)}}
    \cup {Ctx(<<Field(<<"b">>, String(<<"m">>))>>)}
    \cup {CtxA(Rows(n)) : n \in 1..2}
    \cup {ScopeRoot(y) : y \in {Item(2), Ctx(<<>>), String(<<"s">>)}}
    \cup {DottedRoot(v) : v \in DottedValues}

(***************************************************************************)
(* The program: load_dir fills the map file by file, Templates::new makes  *)
(* the registry, and then render_to_string is called on it.                *)
(***************************************************************************)
NoCall == [name |-> <<>>, data |-> Absent, sink |-> VecSink]

NoVm == [exprs |-> <<>>, root |-> Absent, pos |-> 0, stack |-> <<>>]

\* The threads that share one Templates, and a thread that renders nothing.
Threads == {1, 2}

Idle == [name |-> <<>>, data |-> Absent, j |-> 0, buf |-> <<>>, st |-> "idle"]

Start(dirs) ==
    /\ files \in dirs
    /\ loaded = 0
    /\ templates = [n \in {} |-> <<>>]
    /\ phase = "loading"
    /\ call = NoCall
    /\ out = <<>>
    /\ result = "none"
    /\ vm = NoVm
    /\ threads = [t \in Threads |-> Idle]
    /\ scopes = <<>>

Init == Start(Directories)

\* The body of load_dir's loop: Template::parse and HashMap::insert.
LoadFile ==
    /\ phase = "loading"
    /\ loaded < Len(files)
    /\ LET file == files[loaded + 1]
       IN  IF parse_panics(file.src)
           THEN phase' = "panicked" /\ UNCHANGED <<loaded, templates>>
           ELSE /\ templates' = [n \in DOMAIN templates \cup {file.name} |->
                                   IF n = file.name THEN parse(file.src) ELSE templates[n]]
                /\ loaded' = loaded + 1
                /\ UNCHANGED phase
    /\ UNCHANGED <<files, call, out, result, vm, threads, scopes>>

\* Templates::new
New ==
    /\ phase = "loading"
    /\ loaded = Len(files)
    /\ phase' = "ready"
    /\ UNCHANGED <<files, loaded, templates, call, out, result, vm, threads, scopes>>

\* The outcome of a call of Renderer::render that ended as r.
Returned(name, data, sink, r) ==
    /\ out' = Concat(r.w)
    /\ result' = r.st
    /\ call' = [name |-> name, data |-> data, sink |-> sink]
    /\ UNCHANGED <<files, loaded, templates, phase, vm, threads, scopes>>

\* Templates::render_to_string.  Every call makes its own Renderer and its
\* own buffer and leaves the registry as it is, so a run makes one call.
RenderToString(name, data) ==
    /\ phase = "ready"
    /\ call = NoCall
    /\ Returned(name, data, VecSink, render(templates, name, data, VecSink))

\* Templates::render with a writer that fails its write number fail_at; out
\* is what this writer holds after the call.
Render(name, data, fail_at) ==
    /\ phase = "ready"
    /\ call = NoCall
    /\ Returned(name, data, Sink(fail_at), render(templates, name, data, Sink(fail_at)))

Next ==
    \/ LoadFile
    \/ New
    \/ \E name \in {Main, <<"q">>}, data \in Roots : RenderToString(name, data)
    \/ \E data \in SinkRoots, fail_at \in 1..MaxWrites : Render(Main, data, fail_at)

Spec == Init /\ [][Next]_vars

\* Compiler::compile and then execute_to on the bytecode, as vm.rs's tests
\* run them: out is the buffer, result how execute ended.
Executed(exprs, root, m) ==
    /\ out' = m.buf
    /\ result' = m.st
    /\ vm' = [exprs |-> exprs, root |-> root, pos |-> m.pos, stack |-> m.stack]
    /\ UNCHANGED <<files, loaded, templates, phase, call, threads, scopes>>

ExecuteTo(exprs, root) ==
    /\ vm = NoVm
    /\ Executed(exprs, root, execute_to(compile(exprs), root))

VmInit == Start({<<>>})

VmNext == \E exprs \in Programs, root \in VmRoots : ExecuteTo(exprs, root)

VmSpec == VmInit /\ [][VmNext]_vars

(***************************************************************************)
(* Two threads render at once on one Templates.  Templates::render takes   *)
(* &self and the Renderer it makes holds the map by shared reference and a *)
(* writer of its own, so a thread's step is one turn of render_parts' loop *)
(* on the template's parts, reading the map as it is at that moment.       *)
(***************************************************************************)
\* A render that takes the parts out of the template it renders.
taken_templates(self, name) == [self EXCEPT ![name] = <<>>]

\* The map after a step of a render of `name`: `&'a HashMap<String, Template>`
shared_templates(self, name) == self

\* Templates::render up to the lookup of the template
Begin(t, name, data) ==
    /\ phase = "ready"
    /\ threads[t] = Idle
    /\ threads' = [threads EXCEPT ![t] =
                     [name |-> name, data |-> data, j |-> 1, buf |-> <<>>,
                      st |-> IF name \in DOMAIN templates THEN "running" ELSE "Ok"]]
    /\ UNCHANGED <<files, loaded, templates, phase, call, out, result, vm, scopes>>

\* The thread after the part it rendered ended as r.
Stepped(thread, r) ==
    [thread EXCEPT !.buf = @ \o Concat(r.w),
                   !.j = @ + 1,
                   !.st = IF r.st = "Ok" THEN "running" ELSE r.st]

\* One turn of the loop of render_parts on the template's parts, or its end.
Step(t) ==
    /\ threads[t].st = "running"
    /\ threads' = [threads EXCEPT ![t] =
                     IF threads[t].j > Len(templates[threads[t].name])
                     THEN [threads[t] EXCEPT !.st = "Ok"]
                     ELSE Stepped(threads[t],
                                  render_part(templates,
                                              templates[threads[t].name][threads[t].j],
                                              threads[t].data, 0, VecSink))]
    /\ templates' = shared_templates(templates, threads[t].name)
    /\ UNCHANGED <<files, loaded, phase, call, out, result, vm, scopes>>

ConcDirectories ==
    {<<File(<<"p">>, Src.partial), File(Main, Src.include)>>, <<File(Main, Src.var)>>}

ConcRoots == {CtxA(String(<<"<">>)), Item(1), CtxA(ListItems(2))}

ConcInit == Start(ConcDirectories)

ConcNext ==
    \/ LoadFile
    \/ New
    \/ \E t \in Threads, name \in {Main, <<"p">>, <<"q">>}, data \in ConcRoots :
         Begin(t, name, data)
    \/ \E t \in Threads : Step(t)

ConcSpec == ConcInit /\ [][ConcNext]_vars

\* The parser alone, on the generated section sources.
ParseInit == Start({<<File(Main, s)>> : s \in FragmentSources(MaxTags)})

ParseNext == LoadFile \/ New

ParseSpec == ParseInit /\ [][ParseNext]_vars

\* The parser on the variable tags of the generated paths.
AccessInit == Start({<<PathFile(segs)>> : segs \in SegmentLists(MaxSegments) \cup {<<>>}})

AccessSpec == AccessInit /\ [][ParseNext]_vars

\* Renderer::new on the root and Renderer::render into a Vec.
StackRender(name, data) ==
    /\ call = NoCall
    /\ call' = [name |-> name, data |-> data, sink |-> VecSink]
    /\ out' = Renderer_render(templates, new(data), name).w
    /\ result' = Renderer_render(templates, new(data), name).st
    /\ scopes' = Renderer_render(templates, new(data), name).scopes
    /\ UNCHANGED <<files, loaded, templates, phase, vm, threads>>

StackInit ==
    /\ files = <<>>
    /\ loaded = 0
    /\ templates = StackTemplates
    /\ phase = "ready"
    /\ call = NoCall
    /\ out = <<>>
    /\ result = "none"
    /\ vm = NoVm
    /\ threads = [t \in Threads |-> Idle]
    /\ scopes = <<>>

StackNext == \E name \in DOMAIN StackTemplates, data \in StackRoots : StackRender(name, data)

StackSpec == StackInit /\ [][StackNext]_vars

\* The parser on the sections and variables of the numeral paths.
NumeralInit == Start({<<NumeralFile(n, m)>> : n \in Numerals, m \in Numerals \cup {<<>>}})

NumeralSpec == NumeralInit /\ [][ParseNext]_vars

\* The parser on the variable tags of the paths that may begin with a capital.
VariantInit == Start({<<TextFile(text)>> : text \in NonEmptySeqs({"A", "b", "_", "."}, MaxPathLen)})

VariantSpec == VariantInit /\ [][ParseNext]_vars

(***************************************************************************)
(* Properties.  A run loads one directory and makes at most one call of    *)
(* render_to_string; files keeps the sources, call the template name and   *)
(* the root of the call, out the buffer it returned.                       *)
(***************************************************************************)
\* The source of the file loaded last, which is main in every directory.
MainSrc == files[Len(files)].src

\* render_to_string("main", ...) has been called.
CalledMain == call # NoCall /\ call.name = Main /\ call.sink = VecSink

\* "1, 2, ... n, ": the fields c of ListItems(n), each followed by ", ".
RECURSIVE ExpectedList(_)
ExpectedList(n) ==
    IF n = 0 THEN <<>> ELSE ExpectedList(n - 1) \o <<Digits[n + 1], ",", " ">>

\* "[1];[2]; ... [n];"
RECURSIVE ExpectedEach(_)
ExpectedEach(n) ==
    IF n = 0 THEN <<>> ELSE ExpectedEach(n - 1) \o <<"[", Digits[n + 1], "]", ";">>

\* The body rendered for items[j], items[j + 1], ... in this order, each
\* item being the scope of its rendering.
RECURSIVE EachBody(_, _, _)
EachBody(parts, items, j) ==
    IF j > Len(items) THEN <<>>
    ELSE Concat(render_parts(templates, parts, items[j], 0, VecSink).w) \o EachBody(parts, items, j + 1)

\* C1: a section or inverted section whose close tag names another path
\* than its open tag is a parse failure, so the source never becomes a
\* registered Part sequence; with equal paths the source parses to exactly
\* one Section or InvertedSection part.
C1_MismatchedCloseIsParseFailure ==
    \A p1 \in {<<"a">>, <<"b">>, <<"a", ".", "b">>} :
        /\ \A p2 \in {<<"a">>, <<"b">>, <<"a", ".", "b">>} \ {p1} :
               MainSrc \in {Tag(<<"#">>, p1) \o Tag(<<"/">>, p2),
                            Tag(<<"^">>, p1) \o Tag(<<"/">>, p2)}
                   => Main \notin DOMAIN templates
        /\ MainSrc = Tag(<<"#">>, p1) \o Tag(<<"/">>, p1) /\ Main \in DOMAIN templates
               => templates[Main] = <<Section(access(p1, 1).val, <<>>)>>
        /\ MainSrc = Tag(<<"^">>, p1) \o Tag(<<"/">>, p1) /\ Main \in DOMAIN templates
               => templates[Main] = <<InvertedSection(access(p1, 1).val, <<>>)>>

\* C2: a source with no "{{" parses to at most one Text part, and rendering
\* it against any root gives the source itself (nothing for the empty
\* source).
C2_TagFreeSourceRendersVerbatim ==
    MainSrc \in TextSources =>
        /\ Main \in DOMAIN templates =>
               templates[Main] = IF MainSrc = <<>> THEN <<>> ELSE <<Text(MainSrc)>>
        /\ CalledMain => out = MainSrc /\ result = "Ok"

C2_Witness ==
    /\ CalledMain
    /\ MainSrc \in TextSources
    /\ Len(MainSrc) = MaxTextLen
    /\ "{" \in {MainSrc[j] : j \in 1..Len(MainSrc)}
    /\ out = MainSrc

C3_Section(part, v) ==
    /\ part.part = "Section" /\ v.k = "List"
           => out = EachBody(part.parts, v.items, 1) /\ result = "Ok"
    /\ part.part = "Section" /\ v.k = "List" /\ v.items = <<>> => out = <<>>
    /\ part.part = "InvertedSection" /\ v.k = "List" /\ v.items = <<>>
           => out = Concat(render_parts(templates, part.parts, call.data, 0, VecSink).w)

C4_TrueSectionKeepsScope ==
    CalledMain =>
        /\ MainSrc = Src.section /\ call.data = CtxA(Bool(TRUE)) => out = <<"E", "m", ".">>
        /\ MainSrc = Src.section /\ call.data = CtxA(Bool(FALSE)) => out = <<>>
        /\ MainSrc = Src.inverted /\ call.data = CtxA(Bool(TRUE)) => out = <<>>
        /\ MainSrc = Src.inverted /\ call.data = CtxA(Bool(FALSE)) => out = <<"B">>

\* C5: a Variable in a section body whose name is no field of the section's
\* value but is one of the enclosing scope is written from the enclosing
\* scope ({{#a}}E{{b}}.{{/a}} with a an Item and b = "m" beside it gives
\* "Em."), while the path of a Section or InvertedSection in the body is
\* resolved against the innermost scope only.
C5_VariableFallsBackToParent ==
    CalledMain =>
        /\ MainSrc = Src.section /\ call.data = CtxA(Item(1)) => out = <<"E", "m", ".">>
        /\ MainSrc = Src.nested /\ call.data = CtxA(Item(1)) => out = <<"Y">>

\* The values on which the body of an inverted section is to render:
\* false, an empty sequence, an empty map and (as absent) None.
C6_Renders(v) ==
    \/ v = Bool(FALSE)
    \/ v.k \in {"List", "Array"} /\ v.items = <<>>
    \/ v = Map(<<>>)
    \/ v = None

\* C6: an InvertedSection renders its body, against the current scope, if
\* and only if its path resolves to absent, false, an empty sequence or an
\* empty map; for every other value, an empty string and a non-empty map
\* included, the body is skipped.
C6_InvertedRendersOnFalsyOnly ==
    CalledMain /\ MainSrc = Src.inverted =>
        /\ call.data = Ctx(<<Field(<<"b">>, String(<<"m">>))>>) => out = <<"B">>
        /\ \A v \in FieldValues1 :
               call.data = CtxA(v) => out = IF C6_Renders(v) THEN <<"B">> ELSE <<>>

\* C7: a Section {{#Customer}} renders its body only when the current value
\* is a tagged union whose active variant is Customer (then once, with the
\* variant's field c resolvable); for every other current value, an
\* optional around a union of another variant included, it writes nothing.
C7_VariantSectionMatchesVariantOnly ==
    CalledMain /\ MainSrc = Src.variant =>
        IF call.data.k = "Enum" /\ call.data.variant = Customer
        THEN out = <<"P", "J">>
        ELSE IF is_option(call.data) /\ option_value(call.data).k = "Enum"
                /\ option_value(call.data).variant = Customer
        THEN out \in {<<>>, <<"P", "J">>}
        ELSE out = <<>>

Entity ==
    [c \in {"<", ">", "&", "\"", "/", "'"} |->
        CASE c = "<" -> <<"&", "l", "t", ";">>
          [] c = ">" -> <<"&", "g", "t", ";">>
          [] c = "&" -> <<"&", "a", "m", "p", ";">>
          [] c = "\"" -> <<"&", "q", "u", "o", "t", ";">>
          [] c = "/" -> <<"&", "#", "x", "2", "f", ";">>
          [] c = "'" -> <<"&", "#", "x", "2", "7", ";">>]

\* s with every character of special replaced by its entity.
RECURSIVE Entities(_, _)
Entities(s, special) ==
    IF s = <<>> THEN <<>>
    ELSE (IF Head(s) \in special THEN Entity[Head(s)] ELSE <<Head(s)>>)
         \o Entities(Tail(s), special)

C8_Escaping(special) ==
    CalledMain =>
        /\ MainSrc = Src.this /\ call.data.k = "Value" /\ call.data.ty = "String"
               => /\ out = Entities(call.data.s, special)
                  /\ \A j \in 1..Len(out) : out[j] \notin special \ {"&"}
        /\ MainSrc = Src.this /\ call.data.k = "TupleStruct" /\ call.data.ty = UnescapedTy
               => out = call.data.items[1].s
        /\ MainSrc = Src.var /\ call.data = CtxA(String(<<"s">>))
               => out = <<"<", "s", "/", ">">>

\* C8 (as amended): a String variable is written with every < > & " / and '
\* replaced by its entity and every other character unchanged; an Unescaped
\* around the same string is written verbatim; Text is never escaped.
C8_SixCharactersEscaped == C8_Escaping({"<", ">", "&", "\"", "/", "'"})

C8_Witness ==
    /\ CalledMain
    /\ MainSrc = Src.this
    /\ call.data = String(<<"'", "/">>)
    /\ out = <<"&", "#", "x", "2", "7", ";", "&", "#", "x", "2", "f", ";">>

\* C8 (as stated): a String variable is written with every < > & " and /
\* replaced by its entity and every other character unchanged.
C8_FiveCharactersEscaped == C8_Escaping({"<", ">", "&", "\"", "/"})

\* The parts with each Include of a registered name replaced by the parts of
\* the template it names, in section bodies too.
RECURSIVE Inline(_, _)
InlinePart(self, p) ==
    IF p.part = "Include" /\ p.name \in DOMAIN self THEN self[p.name]
    ELSE IF p.part \in {"Section", "InvertedSection"}
    THEN <<[p EXCEPT !.parts = Inline(self, p.parts)]>>
    ELSE <<p>>

Inline(self, parts) ==
    IF parts = <<>> THEN <<>>
    ELSE InlinePart(self, Head(parts)) \o Inline(self, Tail(parts))

\* C9: rendering a template with an Include of a registered name gives the
\* output of the template with the Include replaced by the named template's
\* parts: the partial is rendered against the scope current at the include
\* site (in a list section once per element, that element being the scope).
C9_IncludeIsInlining ==
    CalledMain /\ result = "Ok" =>
        /\ out = Concat(render_parts(templates, Inline(templates, templates[Main]),
                                     call.data, 0, VecSink).w)
        /\ Len(files) = 2 /\ files[1].src = Src.partial =>
               /\ MainSrc = Src.include /\ call.data = CtxA(Bool(TRUE))
                      => out = <<"H", "[", "m", "]", "T">>
               /\ MainSrc = Src.include /\ call.data = Item(1)
                      => out = <<"H", "[", "1", "]", "T">>
               /\ \A n \in 0..MaxListLen :
                      MainSrc = Src.includeeach /\ call.data = CtxA(ListItems(n))
                          => out = ExpectedEach(n)

C9_Witness ==
    /\ CalledMain
    /\ Len(files) = 2
    /\ files[1].src = Src.partial
    /\ MainSrc = Src.includeeach
    /\ call.data = CtxA(ListItems(2))
    /\ out = <<"[", "1", "]", ";", "[", "2", "]", ";">>
    /\ result = "Ok"

\* C10: a registry miss is a no-op and no error: an Include of an
\* unregistered name writes nothing and the parts after it are rendered,
\* and render of an unregistered top-level name writes nothing and is Ok.
C10_RegistryMissIsNoOp ==
    /\ call # NoCall /\ call.name \notin DOMAIN templates => out = <<>> /\ result = "Ok"
    /\ CalledMain /\ MainSrc = Src.missing => out = <<"T">> /\ result = "Ok"
    /\ CalledMain /\ MainSrc = Src.include /\ Len(files) = 1
           => out = <<"H", "T">> /\ result = "Ok"

C10_Witness ==
    /\ CalledMain
    /\ MainSrc = Src.missing
    /\ <<"q">> \notin DOMAIN templates
    /\ out = <<"T">>
    /\ result = "Ok"


\* The structured values without a scalar rendering: a named-field
\* aggregate, a map, a tuple of two fields, a union in a struct variant.
C11_Structured ==
    {Item(1), Map(<<>>), Tuple(<<String(<<"t">>), I32(42)>>),
     Enum(<<"U", "s", "e", "r">>, Customer, "Struct", <<Field(<<"c">>, String(<<"J">>))>>)}

\* C11: when a Variable resolves to a structured value with no scalar
\* rendering, the render fails with an error and writes no text for the
\* variable: <{{a}}/> leaves "<" and does not return Ok.
C11_StructuredVariableIsError ==
    CalledMain /\ MainSrc = Src.var =>
        \A v \in C11_Structured : call.data = CtxA(v) => result # "Ok" /\ out = <<"<">>


\* The field a of the root, absent when the root is no struct or has none.
RootA(data) == IF data.k = "Struct" THEN FieldNamed(data.fields, <<"a">>) ELSE Absent

CustomerJ ==
    Enum(<<"U", "s", "e", "r">>, Customer, "Struct", <<Field(<<"c">>, String(<<"J">>))>>)

\* What {{a.c}}, {{a[1]}} and {{a.0}} are to write when a = v: the field c
\* of a struct or struct variant (through an optional), the second element
\* of a list, the first field of a tuple, and nothing for every other v.
C12_Named(v) ==
    IF v \in {Item(1), Some(Item(1))} THEN <<"1">>
    ELSE IF v \in {CustomerJ, Some(CustomerJ)} THEN <<"J">>
    ELSE <<>>

C12_Index(v) ==
    IF v.k = "List" /\ Len(v.items) >= 2
    THEN IF v.items[2] = Item(2) THEN Unsupported(<<"I", "t", "e", "m">>)
         ELSE IF v.items[2] = String(<<"2">>) THEN <<"2">>
         ELSE <<>>
    ELSE <<>>

C12_Nth(v) == IF v.k = "Tuple" /\ v.items # <<>> THEN <<"t">> ELSE <<>>

C12_Paths(v) ==
    /\ result = "Ok"
    /\ out = <<"(">> \o C12_Named(v) \o <<"|">> \o C12_Index(v) \o <<"|">> \o C12_Nth(v)
             \o <<")", ".">>

\* C12: path resolution walks the selectors left to right and is absent at
\* the first one the value cannot satisfy; absence is no error: the
\* Variable writes nothing, the Section is skipped and the parts after it
\* are rendered.
C12_AbsentPathIsSilent ==
    CalledMain =>
        /\ MainSrc # Src.cycle => result = "Ok"
        /\ MainSrc = Src.paths => C12_Paths(RootA(call.data))

C12_Witness ==
    /\ CalledMain
    /\ MainSrc = Src.paths
    /\ call.data = CtxA(List(<<String(<<"1">>)>>))
    /\ out = <<"(", "|", "|", ")", ".">>
    /\ result = "Ok"


\* Templates::render has been called on main with a writer that fails a
\* write.
CalledFailing == call # NoCall /\ call.sink # VecSink

\* full is what the render writes to a writer that never fails.
C13_Truncated(full) ==
    IF Len(full.w) >= call.sink.fail_at
    THEN result = "Err" /\ out = Concat(SubSeq(full.w, 1, call.sink.fail_at - 1))
    ELSE result = full.st /\ out = Concat(full.w)

\* C13: when a write to the writer fails, render returns the error and
\* attempts no write after it, from enclosing list iterations, sections and
\* partials neither: the writer holds the writes that succeeded before the
\* failure, a prefix of what a render without the fault writes.
C13_WriteFailureStopsRender ==
    CalledFailing => C13_Truncated(render(templates, call.name, call.data, VecSink))

C13_Witness ==
    /\ CalledFailing
    /\ MainSrc = Src.list
    /\ call.data = CtxA(ListItems(2))
    /\ call.sink.fail_at = 3
    /\ out = <<"1", ",", " ">>
    /\ result = "Err"


\* C14: a list section over optional values skips the absent elements: the
\* body is rendered once for each present element, in order, with the
\* unwrapped element as scope, so {{#a}}{{c}}, {{/a}} over
\* [Some(Item 1), None, Some(Item 2)] gives "1, 2, ".
C14_NoneElementsAreSkipped ==
    CalledMain /\ MainSrc = Src.list
        /\ call.data = CtxA(List(<<Some(Item(1)), None, Some(Item(2))>>))
        => out = <<"1", ",", " ", "2", ",", " ">>

\* How many times c occurs in s.
Count(c, s) == Cardinality({j \in 1..Len(s) : s[j] = c})

\* C15: a Section on a string renders its body zero times when the string
\* is empty and exactly once when it is not; no other scalar is falsy by
\* its content: on the number 0 the body is rendered once.
C15_EmptyStringSectionIsSkipped ==
    CalledMain /\ MainSrc = Src.section =>
        /\ call.data = CtxA(String(<<>>)) => out = <<>>
        /\ call.data = CtxA(String(<<"s">>)) => Count("E", out) = 1 /\ Count(".", out) = 1
        /\ call.data \in {CtxA(I32(0)), CtxA(I32(33))}
               => Count("E", out) = 1 /\ Count(".", out) = 1

C15_Witness ==
    /\ CalledMain
    /\ MainSrc = Src.section
    /\ call.data = CtxA(String(<<>>))
    /\ out = <<>>
    /\ result = "Ok"

\* The parts of the template a list of Expr stands for: String is Text, Var
\* is a Variable and Section a Section on the path of that one name.
RECURSIVE PartsOf(_)
PartOf(expr) ==
    IF expr.expr = "String" THEN Text(expr.string)
    ELSE IF expr.expr = "Var" THEN Variable(Path(<<Named(expr.name)>>))
    ELSE Section(Path(<<Named(expr.var)>>), PartsOf(expr.body))

PartsOf(exprs) == [j \in 1..Len(exprs) |-> PartOf(exprs[j])]

\* What the tree-walking renderer makes of the same template and root.
TreeWalk(exprs, root) == render_parts([n \in {} |-> <<>>], PartsOf(exprs), root, 0, VecSink)

\* C16: executing the compiled bytecode gives the output and the success
\* or failure that the tree-walking renderer gives for the same template
\* and the same root.
C16_VmAgreesWithRenderer ==
    vm # NoVm
    => /\ out = Concat(TreeWalk(vm.exprs, vm.root).w)
       /\ result = "Ok" <=> TreeWalk(vm.exprs, vm.root).st = "Ok"

\* The texts pre j post of the items 1..n, in order.
RECURSIVE ItemTexts(_, _, _)
ItemTexts(n, pre, post) ==
    IF n = 0 THEN <<>> ELSE ItemTexts(n - 1, pre, post) \o pre \o <<Digits[n + 1]>> \o post

\* What NestedSection writes for the rows 1..n: the items of each and a ";".
RECURSIVE RowTexts(_)
RowTexts(n) == IF n = 0 THEN <<>> ELSE RowTexts(n - 1) \o ItemTexts(n, <<>>, <<>>) \o <<";">>

\* The number of elements a section on v iterates, 0 when it does not iterate.
ItemCount(v) ==
    IF v.k \in {"Tuple", "List", "Array"} THEN Len(v.items)
    ELSE IF v.k = "Map" THEN Len(v.entries)
    ELSE 0

Executes(exprs) == vm # NoVm /\ vm.exprs = exprs

\* C17: the bytecode of a section on a non-empty list runs the body once
\* per element, in order, with the element on top of the stack (the body's
\* {{c}} is the element's c), leaves the stack as it was before the section
\* (the {{b}} after the section is the root's b) and goes on after the
\* section's EndSection, also for a section in a section; the execution
\* never reads the top of an empty stack, and when it completes the stack
\* holds the root alone.
C17_SectionIteratesAndRestoresStack ==
    /\ result # "Panic"
    /\ vm # NoVm /\ result = "Ok" => vm.stack = <<vm.root>>
    /\ \A n \in 1..MaxListLen :
        vm # NoVm /\ vm.root = CtxA(ListItems(n))
        => /\ Executes(TestSection)
              => /\ result = "Ok"
                 /\ out = ItemTexts(n, <<"I">>, <<"!">>)
                 /\ vm.pos = Len(compile(vm.exprs))
           /\ Executes(SectionThenVar)
              => /\ result = "Ok"
                 /\ out = ItemTexts(n, <<>>, <<>>) \o <<"m", "E">>
                 /\ vm.pos = Len(compile(vm.exprs))
    /\ \A n \in 1..2 :
        Executes(NestedSection) /\ vm.root = CtxA(Rows(n))
        => result = "Ok" /\ out = RowTexts(n) \o <<"E">>
    /\ \A v \in FieldValues1 :
        Executes(SectionThenText) /\ vm.root = CtxA(v) /\ ItemCount(v) > 0
        => /\ result = "Ok"
           /\ out = [j \in 1..ItemCount(v) |-> "T"] \o <<"E">>
           /\ vm.pos = Len(compile(vm.exprs))

C17_Witness ==
    /\ Executes(NestedSection)
    /\ vm.root = CtxA(Rows(2))
    /\ result = "Ok"
    /\ out = <<"1", ";", "1", "2", ";", "E">>
    /\ vm.stack = <<vm.root>>

\* load_dir's map of all the files: the later of two files of one name wins.
RECURSIVE LoadedMap(_, _)
LoadedMap(fs, n) ==
    IF n = 0 THEN [name \in {} |-> <<>>]
    ELSE [name \in DOMAIN LoadedMap(fs, n - 1) \cup {fs[n].name} |->
            IF name = fs[n].name THEN parse(fs[n].src) ELSE LoadedMap(fs, n - 1)[name]]

Finished(t) == threads[t].st \notin {"idle", "running"}

\* C18: of two renders running at once on one Templates, each ends with the
\* text and the outcome that the same render gives when it runs alone, and
\* the registry stays what load_dir made of the files.
C18_ConcurrentRendersAreIndependent ==
    /\ phase = "ready" => templates = LoadedMap(files, Len(files))
    /\ \A t \in Threads :
         Finished(t)
         => /\ threads[t].buf
               = Concat(render(LoadedMap(files, Len(files)), threads[t].name,
                               threads[t].data, VecSink).w)
            /\ threads[t].st
               = render(LoadedMap(files, Len(files)), threads[t].name,
                        threads[t].data, VecSink).st

\* Both threads finished: one rendered main, with its include of p, and the
\* other rendered p on another root.
C18_Witness ==
    /\ \A t \in Threads : Finished(t)
    /\ threads[1].buf = <<"H", "[", "1", "]", "T">>
    /\ threads[2].buf = <<"[", "m", "]">>

\* The source before index i, and whether a close tag stands at i with all
\* of the source before it parsed into parts (no section is open there).
Before(s, i) == SubSeq(s, 1, i - 1)

StrayCloseAt(s, i) ==
    /\ HasTag(s, i, <<"{", "{", "/">>)
    /\ parse_parts(Before(s, i), 1).ok
    /\ parse_parts(Before(s, i), 1).pos = i

\* C19: a close tag at the top level of the source with no section open
\* ends the parts: parse does not panic and returns the parts of the source
\* before the tag, none for the tag and none for what follows it; for a
\* source that is only a close tag it returns the empty list.
C19_StrayCloseTagEndsParts ==
    /\ \A i \in 1..Len(MainSrc) :
         StrayCloseAt(MainSrc, i)
         => /\ phase # "panicked"
            /\ Main \in DOMAIN templates => templates[Main] = parse(Before(MainSrc, i))
    /\ MainSrc = Tag(<<"/">>, <<"a">>) /\ Main \in DOMAIN templates => templates[Main] = <<>>

\* x{{/a}}x is loaded as the one text before the close tag.
C19_Witness ==
    /\ MainSrc = <<"x">> \o Tag(<<"/">>, <<"a">>) \o <<"x">>
    /\ StrayCloseAt(MainSrc, 2)
    /\ Main \in DOMAIN templates
    /\ templates[Main] = <<Text(<<"x">>)>>

\* The segments the loaded file's path was made of, and their fields.
MainSegs == files[Len(files)].segs

Fields(segs) == [j \in 1..Len(segs) |-> segs[j].field]

\* C20: the Path that access makes of a path text holds the fields of the
\* text's segments, in their order and with nothing for the dots, and so is
\* never empty; "." alone is This.
C20_PathHoldsTheSegments ==
    /\ phase # "panicked"
    /\ Main \in DOMAIN templates
       => /\ templates[Main]
             = <<Variable(IF MainSegs = <<>> THEN This ELSE Path(Fields(MainSegs)))>>
          /\ templates[Main][1].access # Path(<<>>)
    /\ access(<<"f", "o", "o", ".", "0", ".", "b", "a", "r", ".", "1", "[", "1", "2", "]">>, 1)
       = Ok(16, Path(<<Named(<<"f", "o", "o">>), Nth(0), Named(<<"b", "a", "r">>), Nth(1),
                       Index(12)>>))

\* {{b1.0[12]}} is loaded as the variable of [Named b1, Nth 0, Index 12].
C20_Witness ==
    /\ MainSrc = Tag(<<>>, <<"b", "1", ".", "0", "[", "1", "2", "]">>)
    /\ Main \in DOMAIN templates
    /\ templates[Main] = <<Variable(Path(<<Named(<<"b", "1">>), Nth(0), Index(12)>>))>>

\* C21: the bytecode of a section on an empty sequence runs the body zero
\* times: nothing of the body is written and the text after the section is.
C21_EmptySequenceRunsBodyZeroTimes ==
    \A v \in FieldValues1 :
        /\ Executes(SectionThenText)
        /\ vm.root = CtxA(v)
        /\ v.k \in {"Tuple", "List", "Array", "Map"}
        /\ ItemCount(v) = 0
        => /\ result = "Ok"
           /\ out = <<"E">>
           /\ vm.pos = Len(compile(vm.exprs))

UserAdmin == Enum(<<"U", "s", "e", "r">>, Admin, "Unit", <<>>)

\* C22: a section that names another variant than the enum's on top of the
\* stack is skipped: nothing of its body is written, there is no error,
\* and the instructions after its EndSection are executed.
C22_OtherVariantSectionIsSkipped ==
    Executes(VariantThenText) /\ vm.root = UserAdmin
    => /\ result = "Ok"
       /\ out = <<"E">>
       /\ vm.pos = Len(compile(vm.exprs))

\* The texts of all the Text parts in parts, at any depth.
RECURSIVE TextsOf(_)
TextsOf(parts) ==
    UNION {IF parts[j].part = "Text" THEN {parts[j].text}
           ELSE IF parts[j].part \in {"Section", "InvertedSection"} THEN TextsOf(parts[j].parts)
           ELSE {} : j \in 1..Len(parts)}

\* C25: every Text part that parse makes is non-empty and holds no "{{": a
\* tag is never part of a text.
C25_TextHoldsNoTag ==
    Main \in DOMAIN templates
    => \A text \in TextsOf(templates[Main]) :
         text # <<>> /\ Find(text, 1, <<"{", "{">>) = 0

\* The path text of the loaded file.
MainPath == files[Len(files)].path

\* The segments of a path text between its dots, the text from index i on
\* being appended to the last segment of acc.
RECURSIVE Split(_, _, _)
Split(text, i, acc) ==
    IF i > Len(text) THEN acc
    ELSE IF text[i] = "." THEN Split(text, i + 1, Append(acc, <<>>))
    ELSE Split(text, i + 1, [acc EXCEPT ![Len(acc)] = Append(@, text[i])])

\* Identifiers separated by single dots.
WellFormed(text) == \A seg \in {Split(text, 1, <<<<>>>>)[j] : j \in 1..Len(Split(text, 1, <<<<>>>>))} : seg # <<>>

OnlyAlnum(text) == \A j \in 1..Len(text) : text[j] \in Alnum

\* C27: a path that is one identifier of letters and digits beginning with
\* a capital is a Variant, also when it is one capital or only capitals;
\* any other well-formed path beginning with a capital, one that goes on
\* with a dot or an underscore, is the Path of its Named segments.
C27_CapitalizedPathClassification ==
    MainPath[1] \in Upper /\ WellFormed(MainPath)
    => /\ phase # "panicked"
       /\ Main \in DOMAIN templates
          => templates[Main]
             = <<Variable(IF OnlyAlnum(MainPath) THEN Variant(MainPath)
                          ELSE Path([j \in 1..Len(Split(MainPath, 1, <<<<>>>>)) |->
                                       Named(Split(MainPath, 1, <<<<>>>>)[j])]))>>

\* A numeral without its leading zeros: two numerals denote the same
\* integer when these are equal.
RECURSIVE Canonical(_)
Canonical(n) == IF Len(n) > 1 /\ n[1] = "0" THEN Canonical(Tail(n)) ELSE n

\* The numeral denotes at most 2^64 - 1: of the generated numerals, those
\* of fewer than twenty digits.
InWord(n) == Len(Canonical(n)) < 20

MainOpen == files[Len(files)].open

MainClose == files[Len(files)].close

\* C30: a selector holds the integer its numeral denotes: a numeral above
\* the machine word is rejected, not reduced, and a section is accepted as
\* balanced only when the numerals of its open and close tags denote the
\* same integer.
C30_NumeralSelectorsAreExact ==
    Main \in DOMAIN templates
    => /\ MainClose # <<>> /\ templates[Main] # <<>>
          => Canonical(MainOpen) = Canonical(MainClose)
       /\ MainClose = <<>> /\ ~InWord(MainOpen) => templates[Main] = <<>>

\* The names the Include parts of parts refer to, at any depth.
RECURSIVE IncludesOf(_)
IncludesOf(parts) ==
    UNION {IF parts[j].part = "Include" THEN {parts[j].name}
           ELSE IF parts[j].part \in {"Section", "InvertedSection"} THEN IncludesOf(parts[j].parts)
           ELSE {} : j \in 1..Len(parts)}

\* The registered templates reached from the set names by at most k
\* Include references, at least one.
RECURSIVE IncludedFrom(_, _, _)
IncludedFrom(self, names, k) ==
    IF k = 0 THEN {}
    ELSE (UNION {IncludesOf(self[n]) : n \in names} \cap DOMAIN self)
         \cup IncludedFrom(self, UNION {IncludesOf(self[n]) : n \in names} \cap DOMAIN self, k - 1)

IncludeCycle(self) ==
    \E n \in DOMAIN self : n \in IncludedFrom(self, {n}, Cardinality(DOMAIN self))

\* C29: a render on a registry whose Include references have no cycle
\* returns; a render that recurses without end is on a registry with a
\* cycle of Include references.
C29_OnlyIncludeCyclesDiverge ==
    call # NoCall => (result = "Overflow" => IncludeCycle(templates))

\* The render of a template that includes itself recursed without end.
C29_Witness ==
    /\ CalledMain
    /\ result = "Overflow"
    /\ MainSrc = Src.cycle
    /\ IncludeCycle(templates)

\* C26: of the Section and the InvertedSection on one path, exactly one
\* writes from its body: the inverted body is written when and only when
\* the section's body is written zero times.
C26_ExactlyOneOfSectionAndInverted ==
    CalledMain /\ MainSrc = Src.both
    => /\ result = "Ok"
       /\ \/ Count("Y", out) = 1 /\ Count("X", out) = 0
          \/ Count("Y", out) = 0 /\ Count("X", out) > 0

\* Renderer::render of render.rs has returned for this template and root.
StackRendered(name, data) == call # NoCall /\ call.name = name /\ call.data = data

\* The values b.a takes under the root of the template scope.
ScopeInners == {Item(2), Ctx(<<>>), String(<<"s">>)}

\* C23: a Variable with the path a.c is committed to the innermost scope in
\* which a resolves: inside {{#b}}, where b has its own a, {{a.c}} writes the
\* c of b.a, and writes nothing when b.a has no c, although the root's a.c
\* exists.
C23_PathCommitsToInnermostScope ==
    \A y \in ScopeInners :
        StackRendered(ScopeName, ScopeRoot(y))
            => /\ result = "Ok"
               /\ out = <<"[">> \o (IF y = Item(2) THEN <<"2">> ELSE <<>>) \o <<"]">>

\* The values of a.c for which the spec has {{^a.c}} render its body.
DottedFalsy == {Absent, None, Bool(FALSE), List(<<>>), Map(<<>>)}

\* The innermost scopes that are a map, an enum or a scalar and have no z.
LacksScopes ==
    {v \in FieldValues1 : v.k \in {"Map", "String", "I32"} \/ (v.k = "Enum" /\ ~v.option)}
    \ {Map(<<>>), String(<<>>)}

\* C24: {{^a.c}}Y{{/a.c}} writes Y, on the unchanged stack, exactly when c
\* inside a is absent, false, an empty sequence or an empty map, and nothing
\* when c is truthy; and {{^z}}Y{{/z}} writes Y when the innermost scope is a
\* map, an enum or a scalar without z.
C24_DottedInvertedSectionIsInverted ==
    /\ \A v \in DottedValues :
          StackRendered(DottedName, DottedRoot(v))
              => /\ out = (IF v \in DottedFalsy THEN <<"Y">> ELSE <<>>)
                 /\ \A i \in 1..Len(scopes) : scopes[i] = new(call.data)
    /\ \A v \in LacksScopes :
          StackRendered(LacksName, CtxA(v)) => out = <<"Y">>

\* The templates whose sections all have single-segment paths, with the
\* depth their sections nest to.
SectionDepth ==
    [name \in {ScopeName, LacksName, BothName, FrameName, PartName, NestName} |->
        IF name = NestName THEN 2 ELSE IF name = PartName THEN 0 ELSE 1]

\* C28: the scope stack of a render is never empty and has the root at the
\* bottom; the parts after a Section, an InvertedSection, a Variable and an
\* Include see the stack the parts before them saw; and the body of a
\* single-segment section sees the enclosing stack with at most one value
\* pushed.
C28_SectionsLeaveTheStackAlone ==
    call # NoCall =>
        /\ result = "Ok"
        /\ \A i \in 1..Len(scopes) :
              /\ scopes[i] # <<>>
              /\ SubSeq(scopes[i], 1, 1) = new(call.data)
              /\ call.name \in DOMAIN SectionDepth
                    => Len(scopes[i]) <= 1 + SectionDepth[call.name]
        /\ call.name = FrameName
              => /\ Len(scopes) >= 7
                 /\ scopes[1] = new(call.data)
                 /\ \A i \in (Len(scopes) - 5)..Len(scopes) : scopes[i] = new(call.data)
        /\ call.name = NestName
              => /\ scopes # <<>>
                 /\ scopes[Len(scopes)] = new(call.data)

C28_Witness ==
    /\ StackRendered(FrameName, CtxA(ListItems(2)))
    /\ out = <<"m", "X", "1", "X", "2", "N", "[", "m", "]", "Z", "m">>
    /\ scopes[2] = append(new(call.data), Item(1))
    /\ scopes[4] = append(new(call.data), Item(2))
    /\ scopes[6] = new(call.data)

=============================================================================
